---- MODULE Spec2Model ----
(***************************************************************************)
(* Model of the event_modifiers pipeline of the launcher                   *)
(* (src/scr/mainWindow.py, class GameLauncher):                            *)
(*   _resolve_event_modifiers_load_order  - Kahn sort with a-z fallback    *)
(*   _parse_event_modifiers_content       - key=value parser, brace blocks *)
(*   _merge_event_modifiers_from_paths    - first-seen order, last writer  *)
(*   start_game                           - resolve, merge, write, launch  *)
(*   load_mods                            - manifest scan, the mod tree    *)
(*   _ensure_z_launcher_setup             - z_launcher's folder and files  *)
(*   set_checked_mods, loadSettings       - check states from saved lists  *)
(*                                                                         *)
(* Text is a sequence of one-character strings; a mod name, a key and a    *)
(* value are texts.  Python dicts are functions (plus a key list where the *)
(* insertion order is read).                                               *)
(***************************************************************************)
EXTENDS Integers, Sequences, FiniteSets, TLC

VARIABLES
    mod_dependencies,  \* self.mod_dependencies: name -> list of declared names
    r_pc,              \* resolver call: "call" before, "ret" after
    r_mod_names,       \* argument mod_names of the resolver call
    r_result,          \* what the call produced: [raised, order]
    p_content,         \* argument content of the parser call
    pf,                \* the parser call's frame: pc, lines, i, pairs, key, value, depth
    p_start,           \* the index i at which the entry being read started
    p_end,             \* the index i of the last line of the entry last appended (-1: none)
    mod_files,         \* self.mod_files: name -> [file, folder]
    fs,                \* mod folder: folder -> common/event_modifiers.txt of that folder
    mf,                \* the merge call's frame: pc, ordered, idx, merged_values, merged_order, out
    io_log,            \* reads attempted and writes done by the merge in progress, in order
    m_calls,           \* merge calls made so far
    memo,              \* one earlier merge call: its ordered names and its output
    mod_order,         \* the keys of self.mod_files in insertion (listdir) order
    checked,           \* names of the tree items whose check state is Checked
    merge_enabled,     \* launcher_config["merge_event_modifiers"] as a bool
    sg,                \* start_game's frame: pc, selected_mods, mods_with_em, order, mods_to_load
    z,                 \* z_launcher on disk: dir, common, modfile, readme, em, modtext, readmetext
    z_calls,           \* direct calls of _ensure_z_launcher_setup: z before the first, z after each
    game,              \* the -mod arguments the game was started with
    mod_folder,        \* <game_root>/mod on disk: exists, files (os.listdir order)
    mod_user_dirs,     \* self.mod_user_dirs: name -> user_dir
    mod_tree,          \* self.mod_tree: the names of its items, in iterator order
    l_pc               \* load_mods: "ret" once it returned for the folder as it is

rvars == <<mod_dependencies, r_pc, r_mod_names, r_result>>
pvars == <<p_content, pf, p_start, p_end>>
mvars == <<mod_files, fs, mf, io_log, m_calls, memo>>
lvars == <<mod_order, checked, merge_enabled, sg, z, z_calls, game>>
lvars_but_sg == <<mod_order, checked, merge_enabled, z, z_calls, game>>
svars == <<mod_folder, mod_user_dirs, mod_tree, l_pc>>
vars == <<rvars, pvars, mvars, lvars, svars>>

\* a parser frame with no call in progress
NoFrame ==
    [pc |-> "none", lines |-> <<>>, i |-> 0, pairs |-> <<>>,
     key |-> <<>>, value |-> <<>>, depth |-> 0]
ParserIdle == p_content = <<>> /\ pf = NoFrame /\ p_start = 0 /\ p_end = -1

\* {} as a dict
EmptyDict == [k \in {} |-> <<>>]

\* a merge frame with no call in progress
NoMerge ==
    [pc |-> "none", ordered |-> <<>>, idx |-> 0, merged_values |-> EmptyDict,
     merged_order |-> <<>>, out |-> <<>>]
NoMemo == [set |-> FALSE, ordered |-> <<>>, out |-> <<>>]
MergeIdle ==
    /\ mod_files = EmptyDict
    /\ fs = EmptyDict
    /\ mf = NoMerge
    /\ io_log = <<>>
    /\ m_calls = 0
    /\ memo = NoMemo

\* common/event_modifiers.txt of a folder
FileWith(t) == [exists |-> TRUE, readable |-> TRUE, content |-> t]
FileUnreadable == [exists |-> TRUE, readable |-> FALSE, content |-> <<>>]
FileAbsent == [exists |-> FALSE, readable |-> FALSE, content |-> <<>>]

\* start_game not called
NoStart ==
    [pc |-> "idle", selected_mods |-> <<>>, mods_with_em |-> <<>>, order |-> <<>>,
     mods_to_load |-> <<>>]
\* no z_launcher folder and no z_launcher.mod in the mod folder
ZNone ==
    [dir |-> FALSE, common |-> FALSE, modfile |-> FALSE, readme |-> FALSE,
     em |-> FileAbsent, modtext |-> <<>>, readmetext |-> <<>>]
LauncherIdle ==
    /\ mod_order = <<>>
    /\ checked = {}
    /\ merge_enabled = FALSE
    /\ sg = NoStart
    /\ z = ZNone
    /\ z_calls = <<>>
    /\ game = <<>>

\* no mod folder under the game root
NoFolder == [exists |-> FALSE, files |-> <<>>]
\* load_mods not called, nothing on disk
ScanIdle ==
    /\ mod_folder = NoFolder
    /\ mod_user_dirs = EmptyDict
    /\ mod_tree = <<>>
    /\ l_pc = "none"

(***************************************************************************)
(* Bounds                                                                  *)
(***************************************************************************)
\* longest candidate list given to the resolver
MaxCand == 3
\* number of declared dependency entries over all manifests
MaxEdges == 2

(***************************************************************************)
(* Text helpers                                                            *)
(***************************************************************************)
Range(s) == {s[k] : k \in 1..Len(s)}

IsDistinct(s) == \A a, b \in 1..Len(s) : a # b => s[a] # s[b]

\* ord(c) for the characters the model uses
CodePoint(c) ==
    CASE c = "\n" -> 10  [] c = " " -> 32  [] c = "#" -> 35
      [] c = "0" -> 48   [] c = "1" -> 49  [] c = "2" -> 50
      [] c = "5" -> 53   [] c = "7" -> 55  [] c = "=" -> 61
      [] c = "A" -> 65   [] c = "B" -> 66  [] c = "Q" -> 81
      [] c = "X" -> 88   [] c = "Y" -> 89
      [] c = "a" -> 97   [] c = "b" -> 98  [] c = "d" -> 100
      [] c = "e" -> 101  [] c = "f" -> 102 [] c = "n" -> 110
      [] c = "o" -> 111  [] c = "r" -> 114 [] c = "s" -> 115
      [] c = "t" -> 116  [] c = "u" -> 117 [] c = "x" -> 120
      [] c = "{" -> 123  [] c = "}" -> 125
      [] OTHER -> 63

\* Python's str < str: code points left to right, a proper prefix is smaller
RECURSIVE StrLess(_, _)
StrLess(s, t) ==
    IF t = <<>> THEN FALSE
    ELSE IF s = <<>> THEN TRUE
    ELSE IF CodePoint(Head(s)) # CodePoint(Head(t))
         THEN CodePoint(Head(s)) < CodePoint(Head(t))
    ELSE StrLess(Tail(s), Tail(t))

\* the installed mods' names, and a name no manifest declares
ModA == <<"A">>
ModB == <<"B">>
ModX == <<"X">>
ModY == <<"Y">>
NotInstalled == <<"Q">>
Names == {ModA, ModB, ModX, ModY}
DepNames == Names \cup {NotInstalled}

(***************************************************************************)
(* _resolve_event_modifiers_load_order                                     *)
(***************************************************************************)
\* dict.get(key, default)
DictGet(d, k, default) == IF k \in DOMAIN d THEN d[k] ELSE default

\* line 320: [d for d in self.mod_dependencies.get(mod, []) if d in mod_names]
\*   faulty variant: the filter on mod_names left out
DepsOfMut_nofilter(mod, mod_names, deps) == DictGet(deps, mod, <<>>)
DepsOf(mod, mod_names, deps) ==
    SelectSeq(DictGet(deps, mod, <<>>), LAMBDA d : d \in Range(mod_names))

\* lines 318-320: deps_map
BuildDepsMap(mod_names, deps) ==
    [m \in Range(mod_names) |-> DepsOf(m, mod_names, deps)]

\* lines 322-325: in_degree[mod] is incremented once per entry of deps_map[mod]
BuildInDegree(mod_names, deps_map) ==
    [m \in Range(mod_names) |-> Len(deps_map[m])]

\* line 326: deque(m for m in mod_names if in_degree[m] == 0)
\*   faulty variant: every candidate queued, whatever its in-degree
InitialQueueMut_all(mod_names, in_degree) == mod_names
InitialQueue(mod_names, in_degree) ==
    SelectSeq(mod_names, LAMBDA m : in_degree[m] = 0)

\* lines 331-332 for one mod: rev[dep].append(mod) for each dep, in list order;
\* rev[dep] with dep not a key raises KeyError
\*   faulty variant: a dependency repeated in the list is entered once
RECURSIVE RevAddModMut_once(_, _, _)
RevAddModMut_once(acc, mod, dlist) ==
    IF dlist = <<>> \/ acc.raised THEN acc
    ELSE IF Head(dlist) \notin DOMAIN acc.rev
         THEN [acc EXCEPT !.raised = TRUE]
    ELSE IF mod \in Range(acc.rev[Head(dlist)])
         THEN RevAddModMut_once(acc, mod, Tail(dlist))
    ELSE RevAddModMut_once([acc EXCEPT !.rev[Head(dlist)] = Append(@, mod)],
                           mod, Tail(dlist))
RECURSIVE RevAddMod(_, _, _)
RevAddMod(acc, mod, dlist) ==
    IF dlist = <<>> \/ acc.raised THEN acc
    ELSE IF Head(dlist) \notin DOMAIN acc.rev
         THEN [acc EXCEPT !.raised = TRUE]
    ELSE RevAddMod([acc EXCEPT !.rev[Head(dlist)] = Append(@, mod)],
                   mod, Tail(dlist))

\* lines 329-332: rev, built mod by mod in mod_names order
RECURSIVE RevLoop(_, _, _)
RevLoop(acc, todo, deps_map) ==
    IF todo = <<>> \/ acc.raised THEN acc
    ELSE RevLoop(RevAddMod(acc, Head(todo), deps_map[Head(todo)]),
                 Tail(todo), deps_map)

BuildRev(mod_names, deps_map) ==
    RevLoop([rev |-> [m \in Range(mod_names) |-> <<>>], raised |-> FALSE],
            mod_names, deps_map)

\* lines 336-339: for other in rev[m]: decrement, enqueue at zero
\*   faulty variant: a released mod is put at the front of the queue
RECURSIVE RelaxMut_front(_, _)
RelaxMut_front(st, others) ==
    IF others = <<>> THEN st
    ELSE LET o == Head(others)
             deg == st.in_degree[o] - 1
         IN RelaxMut_front([in_degree |-> [st.in_degree EXCEPT ![o] = deg],
                            queue |-> IF deg = 0 THEN <<o>> \o st.queue ELSE st.queue],
                           Tail(others))
RECURSIVE Relax(_, _)
Relax(st, others) ==
    IF others = <<>> THEN st
    ELSE LET o == Head(others)
             deg == st.in_degree[o] - 1
         IN Relax([in_degree |-> [st.in_degree EXCEPT ![o] = deg],
                   queue |-> IF deg = 0 THEN Append(st.queue, o) ELSE st.queue],
                  Tail(others))

\* lines 333-339: while queue: popleft, append to order, relax
RECURSIVE KahnLoop(_, _, _, _)
KahnLoop(queue, order, in_degree, rev) ==
    IF queue = <<>> THEN order
    ELSE LET m == Head(queue)
             st == Relax([in_degree |-> in_degree, queue |-> Tail(queue)], rev[m])
         IN KahnLoop(st.queue, Append(order, m), st.in_degree, rev)

\* sorted(): insertion into an ascending list
RECURSIVE InsertSorted(_, _)
InsertSorted(x, s) ==
    IF s = <<>> THEN <<x>>
    ELSE IF StrLess(x, Head(s)) THEN <<x>> \o s
    ELSE <<Head(s)>> \o InsertSorted(x, Tail(s))

RECURSIVE Sorted(_)
Sorted(s) == IF s = <<>> THEN <<>> ELSE InsertSorted(Head(s), Sorted(Tail(s)))

\* lines 340-343: a short order means a cycle: fall back to sorted(mod_names)
\*   faulty variant: the short order returned as it is
FinishOrderMut_partial(order, mod_names) == order
\*   faulty variant: the names sorted a-z whatever the loop emitted
FinishOrderMut_sorted(order, mod_names) == Sorted(mod_names)
FinishOrder(order, mod_names) ==
    IF Len(order) # Len(mod_names) THEN Sorted(mod_names) ELSE order

\* the order Kahn's loop emits, before the length test of line 340
KahnOrder(mod_names, deps) ==
    LET deps_map == BuildDepsMap(mod_names, deps)
        in_degree == BuildInDegree(mod_names, deps_map)
        built == BuildRev(mod_names, deps_map)
    IN KahnLoop(InitialQueue(mod_names, in_degree), <<>>, in_degree, built.rev)

\* lines 309-343: the whole call; raised is an exception leaving the function
ResolveLoadOrder(mod_names, deps) ==
    IF mod_names = <<>> THEN [raised |-> FALSE, order |-> <<>>]
    ELSE LET deps_map == BuildDepsMap(mod_names, deps)
             built == BuildRev(mod_names, deps_map)
         IN IF built.raised THEN [raised |-> TRUE, order |-> <<>>]
            ELSE [raised |-> FALSE,
                  order |-> FinishOrder(KahnOrder(mod_names, deps), mod_names)]

(***************************************************************************)
(* Inputs of the resolver: candidate lists and dependency maps             *)
(***************************************************************************)
\* lists of distinct installed names, at most n long
RECURSIVE DistinctListsOf(_, _)
DistinctListsOf(S, n) ==
    IF n = 0 THEN {<<>>}
    ELSE LET shorter == DistinctListsOf(S, n - 1)
         IN shorter \cup
            UNION {{Append(s, x) : x \in S \ Range(s)} : s \in shorter}

DistinctLists(n) == DistinctListsOf(Names, n)

NoDeps == [m \in Names |-> <<>>]

\* dependency maps of the installed mods with at most n declared entries
RECURSIVE DepMaps(_)
DepMaps(n) ==
    IF n = 0 THEN {NoDeps}
    ELSE LET fewer == DepMaps(n - 1)
         IN fewer \cup
            {[f EXCEPT ![m] = Append(@, d)] : f \in fewer, m \in Names, d \in DepNames}

InitResolve ==
    /\ mod_dependencies \in DepMaps(MaxEdges)
    /\ r_mod_names \in DistinctLists(MaxCand)
    /\ r_pc = "call"
    /\ r_result = [raised |-> FALSE, order |-> <<>>]
    /\ ParserIdle
    /\ MergeIdle
    /\ LauncherIdle
    /\ ScanIdle

\* one call of _resolve_event_modifiers_load_order(mod_names)
Resolve ==
    /\ r_pc = "call"
    /\ r_result' = ResolveLoadOrder(r_mod_names, mod_dependencies)
    /\ r_pc' = "ret"
    /\ UNCHANGED <<mod_dependencies, r_mod_names, pvars, mvars, lvars, svars>>

NextResolve == Resolve

SpecResolve == InitResolve /\ [][NextResolve]_vars

----
\* position of name x in list s (0 when absent)
IndexOf(s, x) == IF x \in Range(s) THEN CHOOSE k \in 1..Len(s) : s[k] = x ELSE 0

\* D is declared by M and both are candidates
CandidateEdge(M, D) ==
    /\ M \in Range(r_mod_names)
    /\ D \in Range(r_mod_names)
    /\ D \in Range(mod_dependencies[M])

\* Kahn's loop emitted every candidate (the test of line 340 passes)
KahnComplete ==
    Len(KahnOrder(r_mod_names, mod_dependencies)) = Len(r_mod_names)

\* candidates reached from the set S along n or fewer candidate edges (M -> D)
RECURSIVE DepClosure(_, _)
DepClosure(S, n) ==
    IF n = 0 THEN S
    ELSE LET T == DepClosure(S, n - 1)
         IN T \cup {D \in Names : \E M \in T : CandidateEdge(M, D)}

\* the dependency graph induced on the candidates has a cycle
InducedCycle ==
    \E M \in Names :
        M \in DepClosure({D \in Names : CandidateEdge(M, D)}, Cardinality(Names))

\* C1 as stated: for every candidate list and dependency map, every declared
\* dependency D of M, both candidates, stands strictly before M in the result.
C1_TopoAlways ==
    r_pc = "ret" =>
        \A M, D \in Names :
            CandidateEdge(M, D) =>
                IndexOf(r_result.order, D) < IndexOf(r_result.order, M)

\* C1 amended: when the dependency graph induced on the candidates has no cycle, every
\* declared dependency D of M, both candidates, stands strictly before M.
C1_TopoWhenAcyclic ==
    (r_pc = "ret" /\ ~InducedCycle) =>
        \A M, D \in Names :
            CandidateEdge(M, D) =>
                /\ IndexOf(r_result.order, D) > 0
                /\ IndexOf(r_result.order, D) < IndexOf(r_result.order, M)

\* a resolved call with a dependency that forces a reordering of the candidates
C1_Witness ==
    /\ r_pc = "ret"
    /\ ~InducedCycle
    /\ \E M, D \in Names :
        /\ CandidateEdge(M, D)
        /\ IndexOf(r_mod_names, M) < IndexOf(r_mod_names, D)
        /\ IndexOf(r_result.order, D) < IndexOf(r_result.order, M)

\* C2: the call raises nothing and returns each candidate exactly once and
\* nothing else (the empty list for no candidates).
C2_Permutation ==
    r_pc = "ret" =>
        /\ ~r_result.raised
        /\ Len(r_result.order) = Len(r_mod_names)
        /\ Range(r_result.order) = Range(r_mod_names)
        /\ IsDistinct(r_result.order)

\* a call whose candidates declare a name that is not a candidate, and a cycle
C2_Witness ==
    /\ r_pc = "ret"
    /\ Len(r_mod_names) = MaxCand
    /\ ~KahnComplete
    /\ \E M \in Range(r_mod_names) :
          Range(mod_dependencies[M]) \ Range(r_mod_names) # {}

IsAscending(s) == \A k \in 1..(Len(s) - 1) : StrLess(s[k], s[k + 1])

\* C3: when Kahn's loop emits fewer names than candidates, the result is all
\* candidates in ascending lexicographic order; X<->Y gives [X, Y] either way.
C3_CycleFallback ==
    (r_pc = "ret" /\ ~KahnComplete) =>
        /\ ~r_result.raised
        /\ Range(r_result.order) = Range(r_mod_names)
        /\ Len(r_result.order) = Len(r_mod_names)
        /\ IsAscending(r_result.order)
        /\ (Range(r_mod_names) = {ModX, ModY} => r_result.order = <<ModX, ModY>>)

\* the call resolveLoadOrder([Y, X]) with X depending on Y and Y on X
C3_Witness ==
    /\ r_pc = "ret"
    /\ r_mod_names = <<ModY, ModX>>
    /\ ModY \in Range(mod_dependencies[ModX])
    /\ ModX \in Range(mod_dependencies[ModY])
    /\ r_result.order = <<ModX, ModY>>

(***************************************************************************)
(* _parse_event_modifiers_content                                          *)
(***************************************************************************)
\* longest input of the parser, in lines
MaxLines == 4

IsSpace(c) == c \in {" ", "\n", "\t"}

RECURSIVE LStrip(_)
LStrip(s) == IF s # <<>> /\ IsSpace(Head(s)) THEN LStrip(Tail(s)) ELSE s

RECURSIVE RStrip(_)
RStrip(s) ==
    IF s # <<>> /\ IsSpace(s[Len(s)]) THEN RStrip(SubSeq(s, 1, Len(s) - 1)) ELSE s

\* str.strip()
Strip(s) == RStrip(LStrip(s))

\* str.count(c)
Count(s, c) == Cardinality({k \in 1..Len(s) : s[k] = c})

\* index of the first c in s (Len(s) + 1 when there is none)
RECURSIVE FirstAt(_, _, _)
FirstAt(s, c, k) ==
    IF k > Len(s) \/ s[k] = c THEN k ELSE FirstAt(s, c, k + 1)

\* s.split("=", 1): the text before the first "=" and the text after it
BeforeEq(s) == SubSeq(s, 1, FirstAt(s, "=", 1) - 1)
\*   faulty variant: the value taken after the last "="
AfterEqMut_last(s) ==
    LET k == CHOOSE j \in 0..Len(s) :
                 /\ IF j = 0 THEN TRUE ELSE s[j] = "="
                 /\ \A h \in (j + 1)..Len(s) : s[h] # "="
    IN SubSeq(s, k + 1, Len(s))
AfterEq(s) == SubSeq(s, FirstAt(s, "=", 1) + 1, Len(s))

\* str.splitlines() for "\n": no empty last line after a final line break
RECURSIVE SplitLines(_)
SplitLines(t) ==
    IF t = <<>> THEN <<>>
    ELSE LET k == FirstAt(t, "\n", 1)
         IN <<SubSeq(t, 1, k - 1)>> \o SplitLines(SubSeq(t, k + 1, Len(t)))

\* value.count("{") - value.count("}")
Balance(s) == Count(s, "{") - Count(s, "}")

\* lines 351-353: pairs = [], lines = content.splitlines(), i = 0
ParseStart(content) ==
    [pc |-> "outer", lines |-> SplitLines(content), i |-> 0, pairs |-> <<>>,
     key |-> <<>>, value |-> <<>>, depth |-> 0]

\* lines 355-356: s = lines[i].strip()
CurrentStripped(f) == Strip(f.lines[f.i + 1])

\* lines 357, 360: blank, comment, or no "="
IsSkipped(s) ==
    IF s = <<>> THEN TRUE
    ELSE IF Head(s) = "#" THEN TRUE
    ELSE "=" \notin Range(s)

\* lines 358-359, 361-362: i += 1; continue
\*   faulty variant: continue without i += 1
SkipLineMut_stay(f) == f
SkipLine(f) == [f EXCEPT !.i = @ + 1]

\* lines 363-367: key, value of the line; a value with "{" opens the inner loop
KeyValue(f) ==
    LET s == CurrentStripped(f)
        value == Strip(AfterEq(s))
    IN IF "{" \in Range(value)
       THEN [f EXCEPT !.key = Strip(BeforeEq(s)), !.value = value,
                      !.depth = Balance(value), !.pc = "inner"]
       ELSE [f EXCEPT !.key = Strip(BeforeEq(s)), !.value = value, !.pc = "emit"]

\* line 368: while depth > 0 and i + 1 < len(lines)
\*   faulty variant: the last line of the input is never consumed
InnerGoesOnMut_early(f) == f.depth > 0 /\ f.i + 2 < Len(f.lines)
InnerGoesOn(f) == f.depth > 0 /\ f.i + 1 < Len(f.lines)

\* lines 369-372: i += 1; value += "\n" + next_line; depth += balance(next_line)
\*   faulty variant: depth not updated
ContinueLineMut_nodepth(f) ==
    [f EXCEPT !.i = @ + 1, !.value = @ \o <<"\n">> \o f.lines[f.i + 2]]
ContinueLine(f) ==
    LET next_line == f.lines[f.i + 2]
    IN [f EXCEPT !.i = @ + 1,
                 !.value = @ \o <<"\n">> \o next_line,
                 !.depth = @ + Balance(next_line)]

\* line 373: value = value.strip()
EndBlock(f) == [f EXCEPT !.value = Strip(@), !.pc = "emit"]

\* lines 374-375: pairs.append((key, value)); i += 1
\*   faulty variant: the outer loop resumes after the entry's first line
EmitMut_rewind(f) ==
    [f EXCEPT !.pairs = Append(@, <<f.key, f.value>>),
              !.i = @ - Count(f.value, "\n") + 1, !.pc = "outer"]
Emit(f) == [f EXCEPT !.pairs = Append(@, <<f.key, f.value>>), !.i = @ + 1, !.pc = "outer"]

\* line 376: return pairs
Return(f) == [f EXCEPT !.pc = "done"]

\* one step of the call, by the position it is at
ParseStep(f) ==
    CASE f.pc = "outer" /\ f.i >= Len(f.lines) -> Return(f)
      [] f.pc = "outer" /\ f.i < Len(f.lines) ->
            IF IsSkipped(CurrentStripped(f)) THEN SkipLine(f) ELSE KeyValue(f)
      [] f.pc = "inner" -> IF InnerGoesOn(f) THEN ContinueLine(f) ELSE EndBlock(f)
      [] f.pc = "emit" -> Emit(f)
      [] OTHER -> f

RECURSIVE ParseRun(_)
ParseRun(f) == IF f.pc = "done" THEN f.pairs ELSE ParseRun(ParseStep(f))

\* lines 345-376: the list of (key, value) the call returns
ParseContent(content) == ParseRun(ParseStart(content))

(***************************************************************************)
(* Inputs of the parser                                                    *)
(***************************************************************************)
LineFooOpen == <<"f", "o", "o", "=", "{">>
LineA1 == <<"a", "=", "1">>
LineClose == <<"}">>
LineBar2 == <<"b", "a", "r", "=", "2">>
LineBlank == <<>>
LineComment == <<"#", "=", "}">>
LineClosePadded == <<" ", "}", " ">>
LineNoEq == <<"x", "{">>
LinePadded == <<" ", "a", " ", "=", " ", "1", "=", "2", " ">>
LinePool ==
    {LineFooOpen, LineA1, LineClose, LineBar2, LineBlank, LineComment,
     LineClosePadded, LineNoEq, LinePadded}

\* "\n".join(ls)
RECURSIVE JoinLines(_)
JoinLines(ls) ==
    IF ls = <<>> THEN <<>>
    ELSE IF Len(ls) = 1 THEN ls[1]
    ELSE ls[1] \o <<"\n">> \o JoinLines(Tail(ls))

\* texts of at most n lines of the pool, each line ended by a line break
RECURSIVE Texts(_)
Texts(n) ==
    IF n = 0 THEN {<<>>}
    ELSE LET shorter == Texts(n - 1)
         IN shorter \cup {t \o l \o <<"\n">> : t \in shorter, l \in LinePool}

\* the same texts, and each without its final line break
Contents(n) == Texts(n) \cup {SubSeq(t, 1, Len(t) - 1) : t \in Texts(n) \ {<<>>}}

ResolverIdle ==
    /\ mod_dependencies = NoDeps
    /\ r_pc = "none"
    /\ r_mod_names = <<>>
    /\ r_result = [raised |-> FALSE, order |-> <<>>]

InitParse ==
    /\ ResolverIdle
    /\ p_content \in Contents(MaxLines)
    /\ pf = NoFrame
    /\ p_start = 0
    /\ p_end = -1
    /\ MergeIdle
    /\ LauncherIdle
    /\ ScanIdle

\* the call _parse_event_modifiers_content(content), up to the loop
ParseBegin ==
    /\ pf.pc = "none"
    /\ pf' = ParseStart(p_content)
    /\ UNCHANGED <<svars, rvars, mvars, lvars, p_content, p_start, p_end>>

ParseSkipLine ==
    /\ pf.pc = "outer" /\ pf.i < Len(pf.lines)
    /\ IsSkipped(CurrentStripped(pf))
    /\ pf' = SkipLine(pf)
    /\ UNCHANGED <<svars, rvars, mvars, lvars, p_content, p_start, p_end>>

ParseKeyValue ==
    /\ pf.pc = "outer" /\ pf.i < Len(pf.lines)
    /\ ~IsSkipped(CurrentStripped(pf))
    /\ pf' = KeyValue(pf)
    /\ p_start' = pf.i
    /\ UNCHANGED <<svars, rvars, mvars, lvars, p_content, p_end>>

ParseContinueLine ==
    /\ pf.pc = "inner"
    /\ InnerGoesOn(pf)
    /\ pf' = ContinueLine(pf)
    /\ UNCHANGED <<svars, rvars, mvars, lvars, p_content, p_start, p_end>>

ParseEndBlock ==
    /\ pf.pc = "inner"
    /\ ~InnerGoesOn(pf)
    /\ pf' = EndBlock(pf)
    /\ UNCHANGED <<svars, rvars, mvars, lvars, p_content, p_start, p_end>>

ParseEmit ==
    /\ pf.pc = "emit"
    /\ pf' = Emit(pf)
    /\ p_end' = pf.i
    /\ UNCHANGED <<svars, rvars, mvars, lvars, p_content, p_start>>

ParseReturn ==
    /\ pf.pc = "outer" /\ pf.i >= Len(pf.lines)
    /\ pf' = Return(pf)
    /\ UNCHANGED <<svars, rvars, mvars, lvars, p_content, p_start, p_end>>

NextParse ==
    \/ ParseBegin
    \/ ParseSkipLine
    \/ ParseKeyValue
    \/ ParseContinueLine
    \/ ParseEndBlock
    \/ ParseEmit
    \/ ParseReturn

SpecParse == InitParse /\ [][NextParse]_vars

\* the lines of the runs followed to their end: one that opens a block, a
\* blank one, an entry, one that closes a block
RunLines == {LineFooOpen, LineBlank, LineA1, LineClose}

\* texts of at most n of these lines, with and without the final line break
RECURSIVE RunTexts(_)
RunTexts(n) ==
    IF n = 0 THEN {<<>>}
    ELSE LET shorter == RunTexts(n - 1)
         IN shorter \cup {t \o l \o <<"\n">> : t \in shorter, l \in RunLines}

RunContents(n) ==
    RunTexts(n) \cup {SubSeq(t, 1, Len(t) - 1) : t \in RunTexts(n) \ {<<>>}}

InitParseRun ==
    /\ ResolverIdle
    /\ p_content \in RunContents(MaxLines)
    /\ pf = NoFrame
    /\ p_start = 0
    /\ p_end = -1
    /\ MergeIdle
    /\ LauncherIdle
    /\ ScanIdle

\* the call is a sequential loop on the caller's thread: it takes its next
\* step as long as it has one
SpecParseRun == InitParseRun /\ [][NextParse]_vars /\ WF_vars(NextParse)

----
\* the trimmed value of the line at which the entry being read started
FirstValue == Strip(AfterEq(Strip(pf.lines[p_start + 1])))

\* the lines after the entry's first one, up to the line at index i
ConsumedLines == SubSeq(pf.lines, p_start + 2, pf.i + 1)

\* FirstValue and the first n consumed lines, joined by line breaks
VerbatimUpTo(n) == JoinLines(<<FirstValue>> \o SubSeq(ConsumedLines, 1, n))

\* an entry is about to be emitted whose first-line value had more { than }
BlockRead == pf.pc = "emit" /\ Balance(FirstValue) > 0

\* the text 'foo={' 'a=1' '}' 'bar=2' of the example
ExampleText == JoinLines(<<LineFooOpen, LineA1, LineClose, LineBar2>>)
ExamplePairs ==
    << <<(<<"f", "o", "o">>), (<<"{", "\n", "a", "=", "1", "\n", "}">>)>>,
       <<(<<"b", "a", "r">>), (<<"2">>)>> >>

\* C8 as stated: the value emitted for a brace block is its first-line value
\* and the consumed raw lines, verbatim, joined by line breaks.
C8_ValueVerbatim ==
    BlockRead => pf.value = VerbatimUpTo(Len(ConsumedLines))

\* C8 amended: the consumed raw lines are appended verbatim, joined by line
\* breaks, with the running balance kept; consuming stops exactly when the
\* balance is no longer positive or the input is exhausted; the emitted value
\* is that text with the white space at its two ends trimmed; the example
\* parses to [(foo, '{\na=1\n}'), (bar, '2')].
C8_BraceBlock ==
    /\ pf.pc = "inner" =>
          /\ pf.value = VerbatimUpTo(Len(ConsumedLines))
          /\ pf.depth = Balance(pf.value)
          /\ \A n \in 0..(Len(ConsumedLines) - 1) : Balance(VerbatimUpTo(n)) > 0
    /\ BlockRead =>
          /\ pf.value = Strip(VerbatimUpTo(Len(ConsumedLines)))
          /\ \A n \in 0..(Len(ConsumedLines) - 1) : Balance(VerbatimUpTo(n)) > 0
          /\ \/ Balance(VerbatimUpTo(Len(ConsumedLines))) <= 0
             \/ pf.i + 1 = Len(pf.lines)
    /\ (pf.pc = "done" /\ p_content = ExampleText) => pf.pairs = ExamplePairs

\* the example has been parsed to its end
C8_Witness ==
    /\ pf.pc = "done"
    /\ p_content = ExampleText
    /\ pf.pairs = ExamplePairs

(***************************************************************************)
(* _merge_event_modifiers_from_paths                                       *)
(***************************************************************************)
\* longest ordered_mod_names given to a merge call
MaxOrder == 2
\* merge calls in one run of the model
MaxCalls == 3

\* d[k] = v on a dict
DictSet(d, k, v) == [x \in (DOMAIN d) \cup {k} |-> IF x = k THEN v ELSE d[x]]

\* lines 384-385: merged_values = {}, merged_order = []
\*   faulty variant: merged_values and merged_order kept from the call before
MergeStartMut_keep(ordered) ==
    [pc |-> "loop", ordered |-> ordered, idx |-> 0,
     merged_values |-> mf.merged_values, merged_order |-> mf.merged_order,
     out |-> <<>>]
MergeStart(ordered) ==
    [pc |-> "loop", ordered |-> ordered, idx |-> 0, merged_values |-> EmptyDict,
     merged_order |-> <<>>, out |-> <<>>]

\* lines 387-388: the file at mod_folder/<folder>/common/event_modifiers.txt
FileOf(files, dir, mod_name) == dir[files[mod_name].folder]

\* lines 389-394: open(...) and read() succeed
CanRead(file) == file.exists /\ file.readable

\* lines 396-398 for one pair: last writer wins, first appearance keeps the place
\*   faulty variant: an overridden key moved to the end
FoldEntryMut_move(acc, pair) ==
    [values |-> DictSet(acc.values, pair[1], pair[2]),
     order |-> Append(SelectSeq(acc.order, LAMBDA k : k # pair[1]), pair[1])]
\*   faulty variant: the first writer wins
FoldEntryMut_first(acc, pair) ==
    IF pair[1] \in Range(acc.order) THEN acc
    ELSE [values |-> DictSet(acc.values, pair[1], pair[2]),
          order |-> Append(acc.order, pair[1])]
FoldEntry(acc, pair) ==
    [values |-> DictSet(acc.values, pair[1], pair[2]),
     order |-> IF pair[1] \in Range(acc.order) THEN acc.order
               ELSE Append(acc.order, pair[1])]

\* lines 395-398: for key, value in the parsed pairs
RECURSIVE FoldEntries(_, _)
FoldEntries(acc, pairs) ==
    IF pairs = <<>> THEN acc
    ELSE FoldEntries(FoldEntry(acc, Head(pairs)), Tail(pairs))

\* lines 392-394: the read raised: print and continue with the next mod
\*   faulty variant: a failed read ends the loop
ReadFailedMut_abort(f) == [f EXCEPT !.idx = Len(f.ordered)]
ReadFailed(f) == [f EXCEPT !.idx = @ + 1]

\* lines 390-391, 395-398: the read succeeded: parse and fold
\*   faulty variant: each mod's entries replace the earlier mods'
ReadDoneMut_replace(f, content) ==
    LET acc == FoldEntries([values |-> EmptyDict, order |-> <<>>], ParseContent(content))
    IN [f EXCEPT !.idx = @ + 1, !.merged_values = acc.values,
                 !.merged_order = acc.order]
ReadDone(f, content) ==
    LET acc == FoldEntries([values |-> f.merged_values, order |-> f.merged_order],
                           ParseContent(content))
    IN [f EXCEPT !.idx = @ + 1, !.merged_values = acc.values,
                 !.merged_order = acc.order]

\* lines 399-402: one line key=value per key of merged_order
\*   faulty variant: the entries are written without the line break
RECURSIVE SerializeMut_noeol(_, _)
SerializeMut_noeol(order, values) ==
    IF order = <<>> THEN <<>>
    ELSE Head(order) \o <<"=">> \o values[Head(order)]
         \o SerializeMut_noeol(Tail(order), values)
RECURSIVE Serialize(_, _)
Serialize(order, values) ==
    IF order = <<>> THEN <<>>
    ELSE Head(order) \o <<"=">> \o values[Head(order)] \o <<"\n">>
         \o Serialize(Tail(order), values)

\* lines 399-403: return "".join(output_lines)
\*   faulty variant: nothing is serialised
MergeFinishMut_empty(f) == [f EXCEPT !.pc = "done"]
MergeFinish(f) ==
    [f EXCEPT !.out = Serialize(f.merged_order, f.merged_values), !.pc = "done"]

\* one step of the call, by the position it is at
MergeStep(f, files, dir) ==
    IF f.pc # "loop" THEN f
    ELSE IF f.idx >= Len(f.ordered) THEN MergeFinish(f)
    ELSE LET file == FileOf(files, dir, f.ordered[f.idx + 1])
         IN IF CanRead(file) THEN ReadDone(f, file.content) ELSE ReadFailed(f)

RECURSIVE MergeRun(_, _, _)
MergeRun(f, files, dir) ==
    IF f.pc = "done" THEN f.out ELSE MergeRun(MergeStep(f, files, dir), files, dir)

\* lines 378-403: the text the call returns
MergeText(ordered, files, dir) == MergeRun(MergeStart(ordered), files, dir)

(***************************************************************************)
(* Inputs of the merge: the mods' files                                    *)
(***************************************************************************)
\* tax=10, trade=5
TextA ==
    <<"t", "a", "x", "=", "1", "0", "\n", "t", "r", "a", "d", "e", "=", "5", "\n">>
\* trade=7, bonus=1
TextB ==
    <<"t", "r", "a", "d", "e", "=", "7", "\n", "b", "o", "n", "u", "s", "=", "1", "\n">>
\* bonus=2, foo={ a=1 }, tax=1, bonus={
TextX ==
    <<"b", "o", "n", "u", "s", "=", "2", "\n",
      "f", "o", "o", "=", "{", "\n", "a", "=", "1", "\n", "}", "\n",
      "t", "a", "x", "=", "1", "\n", "b", "o", "n", "u", "s", "=", "{", "\n">>

MergeMods == {ModA, ModB, ModX}

\* self.mod_files after a scan of <name>.mod with path = "mod/<name>"
ScannedFiles(S) ==
    [m \in S |-> [file |-> m \o <<".", "m", "o", "d">>, folder |-> m]]

InitMerge ==
    /\ ResolverIdle
    /\ ParserIdle
    /\ mod_files = ScannedFiles(MergeMods)
    /\ fs \in [MergeMods -> {FileUnreadable, FileWith(TextA), FileWith(TextB), FileWith(TextX)}]
    /\ mf = NoMerge
    /\ io_log = <<>>
    /\ m_calls = 0
    /\ memo = NoMemo
    /\ LauncherIdle
    /\ ScanIdle

\* a call _merge_event_modifiers_from_paths(mod_folder, ordered), up to the loop
MergeCall ==
    /\ mf.pc \in {"none", "done"}
    /\ m_calls < MaxCalls
    /\ \E ordered \in DistinctListsOf(MergeMods, MaxOrder) : mf' = MergeStart(ordered)
    /\ io_log' = <<>>
    /\ m_calls' = m_calls + 1
    /\ UNCHANGED <<svars, rvars, pvars, lvars, mod_files, fs, memo>>

\* an iteration of the loop of line 386 whose read raises
MergeReadFail ==
    /\ mf.pc = "loop" /\ mf.idx < Len(mf.ordered)
    /\ ~CanRead(FileOf(mod_files, fs, mf.ordered[mf.idx + 1]))
    /\ mf' = ReadFailed(mf)
    /\ io_log' = Append(io_log, <<"read", mf.ordered[mf.idx + 1]>>)
    /\ UNCHANGED <<svars, rvars, pvars, lvars, mod_files, fs, m_calls, memo>>

\* an iteration of the loop of line 386 whose read succeeds
MergeReadOk ==
    /\ mf.pc = "loop" /\ mf.idx < Len(mf.ordered)
    /\ CanRead(FileOf(mod_files, fs, mf.ordered[mf.idx + 1]))
    /\ mf' = ReadDone(mf, FileOf(mod_files, fs, mf.ordered[mf.idx + 1]).content)
    /\ io_log' = Append(io_log, <<"read", mf.ordered[mf.idx + 1]>>)
    /\ UNCHANGED <<svars, rvars, pvars, lvars, mod_files, fs, m_calls, memo>>

\* the loop is over: serialise and return
MergeReturn ==
    /\ mf.pc = "loop" /\ mf.idx >= Len(mf.ordered)
    /\ mf' = MergeFinish(mf)
    /\ UNCHANGED <<svars, rvars, pvars, lvars, mod_files, fs, io_log, m_calls, memo>>

\* keep the arguments and the output of a returned call for comparison
Remember ==
    /\ mf.pc = "done"
    /\ ~memo.set
    /\ memo' = [set |-> TRUE, ordered |-> mf.ordered, out |-> mf.out]
    /\ UNCHANGED <<svars, rvars, pvars, lvars, mod_files, fs, mf, io_log, m_calls>>

NextMerge ==
    \/ MergeCall
    \/ MergeReadFail
    \/ MergeReadOk
    \/ MergeReturn
    \/ Remember

SpecMerge == InitMerge /\ [][NextMerge]_vars

----
\* the ordered mods whose file can be read
ReadableMods == SelectSeq(mf.ordered, LAMBDA m : CanRead(FileOf(mod_files, fs, m)))

\* the parsed entries of the mods of list ms, one mod after the other
RECURSIVE EntriesOf(_)
EntriesOf(ms) ==
    IF ms = <<>> THEN <<>>
    ELSE ParseContent(FileOf(mod_files, fs, Head(ms)).content) \o EntriesOf(Tail(ms))

AllEntries == EntriesOf(ReadableMods)

KeysOf(entries) == [k \in 1..Len(entries) |-> entries[k][1]]

\* s without every occurrence after the first
RECURSIVE Dedup(_)
Dedup(s) ==
    IF s = <<>> THEN <<>>
    ELSE LET front == Dedup(SubSeq(s, 1, Len(s) - 1))
         IN IF s[Len(s)] \in Range(front) THEN front ELSE Append(front, s[Len(s)])

\* the value of the last entry with this key
LastValue(entries, key) ==
    entries[CHOOSE k \in 1..Len(entries) :
                /\ entries[k][1] = key
                /\ \A j \in (k + 1)..Len(entries) : entries[j][1] # key][2]

\* C4: the keys of the merged output are the readable mods' parsed keys in
\* resolved order with every occurrence after the first removed: each key
\* once, at its first-appearance position.
C4_KeyOrder ==
    mf.pc = "done" =>
        /\ mf.merged_order = Dedup(KeysOf(AllEntries))
        /\ IsDistinct(mf.merged_order)
        /\ mf.out = Serialize(Dedup(KeysOf(AllEntries)), mf.merged_values)

\* a merge in which a key of the first mod is overridden by a later mod and
\* still stands before the later mod's new keys
C4_Witness ==
    /\ mf.pc = "done"
    /\ Len(ReadableMods) = 2
    /\ Len(AllEntries) > Len(mf.merged_order) + 1
    /\ \E k \in 1..Len(AllEntries) :
          /\ AllEntries[k][1] = mf.merged_order[1]
          /\ k > Len(mf.merged_order)

\* C5: every key of the merged output carries the value of the last entry
\* with that key in the concatenation of the readable mods' entries.
C5_LastWriterWins ==
    mf.pc = "done" =>
        /\ DOMAIN mf.merged_values = Range(KeysOf(AllEntries))
        /\ \A key \in Range(mf.merged_order) :
              mf.merged_values[key] = LastValue(AllEntries, key)
        /\ mf.out = Serialize(mf.merged_order,
                              [key \in Range(KeysOf(AllEntries)) |-> LastValue(AllEntries, key)])

\* a merge with a key that a later mod overrides with another value, and a
\* key that one mod writes twice
C5_Witness ==
    /\ mf.pc = "done"
    /\ \E a, b \in 1..Len(AllEntries) :
          /\ a < b
          /\ AllEntries[a][1] = AllEntries[b][1]
          /\ AllEntries[a][2] # AllEntries[b][2]
          /\ mf.merged_values[AllEntries[a][1]] = AllEntries[b][2]
          /\ mf.merged_values[AllEntries[a][1]] # AllEntries[a][2]
    /\ \E m \in Range(ReadableMods) :
          ~IsDistinct(KeysOf(ParseContent(FileOf(mod_files, fs, m).content)))

\* C6: whatever reads fail, the call returns, a read was attempted for every
\* ordered mod, and the output is the merge of the readable mods in their
\* relative order (empty when every read fails).
C6_UnreadableSkipped ==
    mf.pc = "done" =>
        /\ io_log = [k \in 1..Len(mf.ordered) |-> <<"read", mf.ordered[k]>>]
        /\ mf.out = MergeText(ReadableMods, mod_files, fs)
        /\ mf.out = Serialize(Dedup(KeysOf(AllEntries)),
                              [key \in Range(KeysOf(AllEntries)) |-> LastValue(AllEntries, key)])
        /\ (ReadableMods = <<>> => mf.out = <<>>)

\* a merge whose first mod cannot be read and whose second mod can
C6_Witness ==
    /\ mf.pc = "done"
    /\ Len(mf.ordered) = 2
    /\ ~CanRead(FileOf(mod_files, fs, mf.ordered[1]))
    /\ CanRead(FileOf(mod_files, fs, mf.ordered[2]))
    /\ mf.out # <<>>

\* C7: a merge call with the ordered names of a remembered earlier call (the
\* files are the same) returns the text that call returned, whatever merges
\* were made before either.
C7_SameInputsSameOutput ==
    (mf.pc = "done" /\ memo.set /\ memo.ordered = mf.ordered) => mf.out = memo.out

\* the third call repeats the first one after a different merge
C7_Witness ==
    /\ mf.pc = "done"
    /\ m_calls = MaxCalls
    /\ memo.set
    /\ memo.ordered = mf.ordered
    /\ mf.out = memo.out
    /\ mf.out # <<>>

(***************************************************************************)
(* load_mods (the tree), get_checked_mods, start_game                      *)
(***************************************************************************)
\* Z_LAUNCHER_NAME
ModZ == <<"z", "_", "l", "a", "u", "n", "c", "h", "e", "r">>

\* lines 564-571: the names given a tree item, in the order of mod_files
\*   faulty variant: z_launcher is given an item like any mod
TreeItemsMut_all(order) == order
TreeItems(order) == SelectSeq(order, LAMBDA m : m # ModZ)

\* lines 578-582: the item a mod is added under: its first dependency that has
\* an item; <<>> when it is added as a top-level item (lines 583-586)
RECURSIVE FirstItem(_, _)
FirstItem(dlist, items) ==
    IF dlist = <<>> THEN <<>>
    ELSE IF Head(dlist) \in Range(items) THEN Head(dlist)
    ELSE FirstItem(Tail(dlist), items)

ParentOf(m, order, deps) == FirstItem(deps[m], TreeItems(order))

\* the children of item p (of the tree itself for p = <<>>), in insertion order
ChildrenOf(p, order, deps) ==
    SelectSeq(TreeItems(order), LAMBDA m : ParentOf(m, order, deps) = p)

\* QTreeWidgetItemIterator: pre-order over the items below the listed ones
RECURSIVE PreOrder(_, _, _, _)
PreOrder(todo, order, deps, fuel) ==
    IF todo = <<>> \/ fuel = 0 THEN <<>>
    ELSE <<Head(todo)>>
         \o PreOrder(ChildrenOf(Head(todo), order, deps), order, deps, fuel - 1)
         \o PreOrder(Tail(todo), order, deps, fuel)

\* the items the iterator visits, from the top-level items down
VisitedItems(order, deps) ==
    PreOrder(ChildrenOf(<<>>, order, deps), order, deps, Len(order))

\* lines 591-613: the checked items that are keys of mod_files, in tree order
GetCheckedMods(order, deps, files, chk) ==
    SelectSeq(VisitedItems(order, deps), LAMBDA m : m \in chk /\ m \in DOMAIN files)

\* lines 295-307: the selected mods with a folder and a common/event_modifiers.txt
ModsWithEventModifiers(selected, files, dir) ==
    SelectSeq(selected,
              LAMBDA m : /\ m \in DOMAIN files
                         /\ files[m].folder # <<>>
                         /\ files[m].folder \in DOMAIN dir
                         /\ dir[files[m].folder].exists)

\* lines 283-285: the manifest _ensure_z_launcher_setup writes
ManifestZ ==
    <<"n", "a", "m", "e", " ", "=", " ", "\"", "z", "_", "l", "a", "u", "n", "c", "h", "e", "r", "\"", "\n">> \o
    <<"p", "a", "t", "h", " ", "=", " ", "\"", "m", "o", "d", "/", "z", "_", "l", "a", "u", "n", "c", "h", "e", "r", "\"", "\n">> \o
    <<"u", "s", "e", "r", "_", "d", "i", "r", " ", "=", " ", "\"", "z", "_", "l", "a", "u", "n", "c", "h", "e", "r", "\"", "\n">>

\* line 293: the text written to readme.txt
ReadmeText ==
    <<"T", "h", "i", "s", " ", "f", "o", "l", "d", "e", "r", " ", "a", "n", "d", " ",
      "m", "o", "d", " ", "i", "s", " ", "u", "s", "e", "d", " ", "t", "o", " ", "f",
      "i", "x", " ", "c", "o", "n", "f", "l", "i", "c", "t", "s", " ", "w", "i", "t",
      "h", " ", "e", "v", "e", "n", "t", "_", "m", "o", "d", "i", "f", "i", "e", "r",
      "s", " ", "a", "n", "d", " ", "i", "s", " ", "h", "i", "d", "d", "e", "n", " ",
      "b", "y", " ", "d", "e", "f", "a", "u", "l", "t", ".", "\n">>

\* lines 275-293: what _ensure_z_launcher_setup leaves on disk: the two
\* directories made (line 279), each of the three files written when
\* os.path.exists says it is not there
\*   faulty variant: common/event_modifiers.txt is opened for writing at
\*   every call
EnsureZLauncherSetupMut_truncate(zz) ==
    [dir |-> TRUE, common |-> TRUE, modfile |-> TRUE, readme |-> TRUE,
     em |-> FileWith(<<>>),
     modtext |-> IF zz.modfile THEN zz.modtext ELSE ManifestZ,
     readmetext |-> IF zz.readme THEN zz.readmetext ELSE ReadmeText]
EnsureZLauncherSetup(zz) ==
    [dir |-> TRUE, common |-> TRUE, modfile |-> TRUE, readme |-> TRUE,
     em |-> IF zz.em.exists THEN zz.em ELSE FileWith(<<>>),
     modtext |-> IF zz.modfile THEN zz.modtext ELSE ManifestZ,
     readmetext |-> IF zz.readme THEN zz.readmetext ELSE ReadmeText]

\* lines 642-646: the setup runs when merging is on, mods are selected and
\* the z_launcher directory is missing
SetupIfMissing(zz, enabled, selected) ==
    IF enabled /\ selected # <<>> /\ ~zz.dir THEN EnsureZLauncherSetup(zz) ELSE zz

\* line 648: if len(mods_with_em) > 1
\*   faulty variant: one mod with the file is enough
ShouldMergeMut_one(enabled, selected, with_em) ==
    enabled /\ selected # <<>> /\ Len(with_em) > 0
ShouldMerge(enabled, selected, with_em) ==
    enabled /\ selected # <<>> /\ Len(with_em) > 1

\* lines 660-666: the -mod arguments, one per mod to load
ModFileArgs(to_load, files) ==
    [k \in 1..Len(to_load) |->
        IF to_load[k] = ModZ THEN ModZ \o <<".", "m", "o", "d">>
        ELSE files[to_load[k]].file]

(***************************************************************************)
(* load_mods: the scan of the manifests                                    *)
(***************************************************************************)
\* most directory entries in the mod folder
MaxFiles == 2

Quote == "\""
DotMod == <<".", "m", "o", "d">>

\* str.startswith, str.endswith
StartsWith(s, p) == Len(s) >= Len(p) /\ SubSeq(s, 1, Len(p)) = p
EndsWith(s, p) == Len(s) >= Len(p) /\ SubSeq(s, Len(s) - Len(p) + 1, Len(s)) = p

\* str.split(c)
RECURSIVE SplitOn(_, _)
SplitOn(t, c) ==
    LET k == FirstAt(t, c, 1)
    IN IF k > Len(t) THEN <<t>>
       ELSE <<SubSeq(t, 1, k - 1)>> \o SplitOn(SubSeq(t, k + 1, Len(t)), c)

\* str.strip(chars)
RECURSIVE LStripChars(_, _)
LStripChars(s, cs) ==
    IF s # <<>> /\ Head(s) \in cs THEN LStripChars(Tail(s), cs) ELSE s

RECURSIVE RStripChars(_, _)
RStripChars(s, cs) ==
    IF s # <<>> /\ s[Len(s)] \in cs THEN RStripChars(SubSeq(s, 1, Len(s) - 1), cs)
    ELSE s

StripChars(s, cs) == RStripChars(LStripChars(s, cs), cs)

\* lines 510-511: a value in double quotes loses them
Unquote(value) ==
    IF StartsWith(value, <<Quote>>) /\ EndsWith(value, <<Quote>>) /\ Len(value) >= 2
    THEN SubSeq(value, 2, Len(value) - 1)
    ELSE value

\* lines 500-512: _parse_mod_kv; <<>> stands for None
ParseModKv(line) ==
    LET s == Strip(line)
    IN IF s = <<>> THEN <<>>
       ELSE IF StartsWith(s, <<"#">>) \/ StartsWith(s, <<"/", "/">>) THEN <<>>
       ELSE IF "=" \notin Range(s) THEN <<>>
       ELSE <<Strip(BeforeEq(s)), Unquote(Strip(AfterEq(s)))>>

\* lines 534-535: the braces stripped, split on commas, each piece trimmed and
\* unquoted, pieces of white space dropped
ParseDependencies(value) ==
    LET deps_str == StripChars(Strip(value), {"{", "}"})
        pieces == SelectSeq(SplitOn(deps_str, ","), LAMBDA dep : Strip(dep) # <<>>)
    IN [k \in 1..Len(pieces) |-> StripChars(Strip(pieces[k]), {Quote})]

KeyName == <<"n", "a", "m", "e">>
KeyDependencies == <<"d", "e", "p", "e", "n", "d", "e", "n", "c", "i", "e", "s">>
KeyPath == <<"p", "a", "t", "h">>
KeyUserDir == <<"u", "s", "e", "r", "_", "d", "i", "r">>

\* lines 519-524: name = "", dependencies = [], user_dir = "", mod_path = ""
NoFields == [name |-> <<>>, dependencies |-> <<>>, user_dir |-> <<>>, mod_path |-> <<>>]

\* lines 526-543 for one line of the manifest (github and version are read
\* too; they do not reach any map the model keeps)
ReadLine(acc, line) ==
    LET parsed == ParseModKv(line)
    IN IF parsed = <<>> THEN acc
       ELSE IF parsed[1] = KeyName THEN [acc EXCEPT !.name = parsed[2]]
       ELSE IF parsed[1] = KeyDependencies
            THEN [acc EXCEPT !.dependencies = ParseDependencies(parsed[2])]
       ELSE IF parsed[1] = KeyPath THEN [acc EXCEPT !.mod_path = parsed[2]]
       ELSE IF parsed[1] = KeyUserDir THEN [acc EXCEPT !.user_dir = parsed[2]]
       ELSE acc

RECURSIVE ReadLines(_, _)
ReadLines(acc, lines) ==
    IF lines = <<>> THEN acc ELSE ReadLines(ReadLine(acc, Head(lines)), Tail(lines))

\* lines 518-543: the fields of one manifest
ParseManifest(content) == ReadLines(NoFields, SplitOn(content, "\n"))

\* line 547: the folder name is what follows the last "/" of path
FolderName(mod_path) ==
    IF mod_path = <<>> THEN <<>>
    ELSE LET parts == SplitOn(mod_path, "/") IN parts[Len(parts)]

\* lines 496-498: the three maps emptied; order is the key order of mod_files
EmptyScan ==
    [files |-> EmptyDict, deps |-> EmptyDict, user_dirs |-> EmptyDict, order |-> <<>>]

\* line 545: if name
\*   faulty variant: a record is stored whatever the name
HasNameMut_any(name) == TRUE
HasName(name) == name # <<>>

\* lines 545-556: the record, the dependencies and the user_dir stored under
\* name (the record keeps 'file' and 'folder' of the five fields)
StoreRecord(acc, file, fields) ==
    IF HasName(fields.name)
    THEN [files |-> DictSet(acc.files, fields.name,
                            [file |-> file, folder |-> FolderName(fields.mod_path)]),
          deps |-> DictSet(acc.deps, fields.name, fields.dependencies),
          user_dirs |-> DictSet(acc.user_dirs, fields.name, fields.user_dir),
          order |-> IF fields.name \in Range(acc.order) THEN acc.order
                    ELSE Append(acc.order, fields.name)]
    ELSE acc

\* lines 515-517: the entry is a manifest and open() and read() raise
ReadRaises(entry) == EndsWith(entry.file, DotMod) /\ ~entry.readable

\* lines 515-558 for one directory entry
ScanFile(acc, entry) ==
    IF ~EndsWith(entry.file, DotMod) THEN acc
    ELSE IF ReadRaises(entry) THEN acc
    ELSE StoreRecord(acc, entry.file, ParseManifest(entry.content))

\* lines 557-558: the except clause stands inside the loop, which goes on
\*   faulty variant: a manifest that cannot be read ends the loop
RestAfterMut_abort(entry, rest) == IF ReadRaises(entry) THEN <<>> ELSE rest
RestAfter(entry, rest) == rest

\* lines 514-558: for file in os.listdir(mod_folder)
RECURSIVE ScanFiles(_, _)
ScanFiles(acc, entries) ==
    IF entries = <<>> THEN acc
    ELSE ScanFiles(ScanFile(acc, Head(entries)), RestAfter(Head(entries), Tail(entries)))

\* lines 491-494: the guard of the early return
KeepsMaps(folder) == ~folder.exists

\* lines 488-558: the maps load_mods leaves, from the maps it found
ScanResult(folder, before) ==
    IF KeepsMaps(folder) THEN before ELSE ScanFiles(EmptyScan, folder.files)

\* lines 493, 560-589: the items of the tree load_mods leaves
TreeResult(folder, scan) ==
    IF ~folder.exists THEN <<>> ELSE VisitedItems(scan.order, scan.deps)

(***************************************************************************)
(* Inputs of the scan: the mod folder                                      *)
(***************************************************************************)
\* a manifest of mod A
ManifestA ==
    <<"n", "a", "m", "e", " ", "=", " ", "\"", "A", "\"", "\n">> \o
    <<"p", "a", "t", "h", " ", "=", " ", "\"", "m", "o", "d", "/", "A", "\"", "\n">>
\* mod B, which declares A and a mod that is not installed
ManifestB ==
    <<"n", "a", "m", "e", "=", "\"", "B", "\"", "\n">> \o
    <<"p", "a", "t", "h", "=", "\"", "m", "o", "d", "/", "B", "\"", "\n">> \o
    <<"d", "e", "p", "e", "n", "d", "e", "n", "c", "i", "e", "s", " ", "=", " ", "{", "\"", "A", "\"", ",", " ", "\"", "Q", "\"", "}", "\n">> \o
    <<"u", "s", "e", "r", "_", "d", "i", "r", " ", "=", " ", "\"", "B", "\"", "\n">>
\* a second manifest with the name A
ManifestA2 ==
    <<"/", "/", " ", "c", "o", "p", "y", "\n">> \o
    <<"n", "a", "m", "e", " ", "=", " ", "\"", "A", "\"", "\n">> \o
    <<"p", "a", "t", "h", " ", "=", " ", "\"", "m", "o", "d", "/", "B", "\"", "\n">> \o
    <<"d", "e", "p", "e", "n", "d", "e", "n", "c", "i", "e", "s", " ", "=", " ", "{", "\"", "B", "\"", "}", "\n">>
\* a manifest without a name line
ManifestNoName ==
    <<"#", " ", "n", "a", "m", "e", " ", "=", " ", "\"", "X", "\"", "\n">> \o
    <<"p", "a", "t", "h", " ", "=", " ", "\"", "m", "o", "d", "/", "X", "\"", "\n">>
\* a manifest with an empty name
ManifestEmptyName ==
    <<"n", "a", "m", "e", " ", "=", " ", "\"", "\"", "\n">> \o
    <<"p", "a", "t", "h", " ", "=", " ", "\"", "m", "o", "d", "/", "B", "\"", "\n">> \o
    <<"u", "s", "e", "r", "_", "d", "i", "r", " ", "=", " ", "\"", "B", "\"", "\n">>
\* mod A, which declares an empty name, B and itself
ManifestALoop ==
    <<"n", "a", "m", "e", " ", "=", " ", "\"", "A", "\"", "\n">> \o
    <<"d", "e", "p", "e", "n", "d", "e", "n", "c", "i", "e", "s", " ", "=", " ", "{", "\"", "\"", ",", " ", "\"", "B", "\"", ",", "A", "}", "\n">>
FileA == ModA \o DotMod
FileB == ModB \o DotMod
FileZ == ModZ \o DotMod
FileNotes == <<"n", "o", "t", "e", "s", ".", "t", "x", "t">>

\* a directory entry: its name, whether it can be opened and read, its text
Entry(file, content) == [file |-> file, readable |-> TRUE, content |-> content]
Unreadable(file) == [file |-> file, readable |-> FALSE, content |-> <<>>]

\* the entries the mod folder may hold
DirEntries ==
    {Entry(FileA, ManifestA), Entry(FileA, ManifestNoName), Unreadable(FileA),
     Entry(FileA, ManifestALoop),
     Entry(FileB, ManifestB), Entry(FileB, ManifestA2), Entry(FileB, ManifestEmptyName),
     Entry(FileZ, ManifestZ), Unreadable(FileZ),
     Entry(FileNotes, ManifestB)}

\* listings of at most n entries with different names, in any order
RECURSIVE Listings(_)
Listings(n) ==
    IF n = 0 THEN {<<>>}
    ELSE LET shorter == Listings(n - 1)
         IN shorter \cup
            UNION {{Append(l, e) :
                      e \in {x \in DirEntries :
                                \A k \in 1..Len(l) : l[k].file # x.file}} :
                   l \in shorter}

Folders(n) == {NoFolder} \cup {[exists |-> TRUE, files |-> l] : l \in Listings(n)}

\* one change made to the mod folder from outside: the folder removed or
\* created, an entry removed, added or replaced
FolderEdits(folder, n) ==
    IF ~folder.exists THEN {[exists |-> TRUE, files |-> <<>>]}
    ELSE {NoFolder}
         \cup {[exists |-> TRUE, files |-> l] :
                 l \in {m \in Listings(n) :
                          \/ \E k \in 1..Len(folder.files) :
                                m = SubSeq(folder.files, 1, k - 1)
                                    \o SubSeq(folder.files, k + 1, Len(folder.files))
                          \/ /\ Len(m) = Len(folder.files) + 1
                             /\ SubSeq(m, 1, Len(folder.files)) = folder.files
                          \/ /\ Len(m) = Len(folder.files)
                             /\ \E k \in 1..Len(m) :
                                   /\ m[k] # folder.files[k]
                                   /\ \A j \in 1..Len(m) : j # k => m[j] = folder.files[j]}}

\* the state before the first call of load_mods (lines 33-34; mod_user_dirs
\* is first assigned at line 498)
InitScan ==
    /\ mod_dependencies = EmptyDict
    /\ r_pc = "none"
    /\ r_mod_names = <<>>
    /\ r_result = [raised |-> FALSE, order |-> <<>>]
    /\ ParserIdle
    /\ MergeIdle
    /\ LauncherIdle
    /\ mod_folder \in Folders(MaxFiles)
    /\ mod_user_dirs = EmptyDict
    /\ mod_tree = <<>>
    /\ l_pc = "none"

\* load_mods, lines 488-589
LoadMods ==
    /\ sg.pc = "idle"
    /\ LET scan == ScanResult(mod_folder,
                              [files |-> mod_files, deps |-> mod_dependencies,
                               user_dirs |-> mod_user_dirs, order |-> mod_order])
       IN /\ mod_files' = scan.files
          /\ mod_dependencies' = scan.deps
          /\ mod_user_dirs' = scan.user_dirs
          /\ mod_order' = scan.order
          /\ mod_tree' = TreeResult(mod_folder, scan)
    /\ checked' = {}
    /\ l_pc' = "ret"
    /\ UNCHANGED <<mod_folder, r_pc, r_mod_names, r_result, pvars,
                   fs, mf, io_log, m_calls, memo, merge_enabled, sg, z, z_calls, game>>

\* the mod folder is changed from outside the launcher
ChangeFolder ==
    /\ \E f \in FolderEdits(mod_folder, MaxFiles) : mod_folder' = f
    /\ l_pc' = "none"
    /\ UNCHANGED <<rvars, pvars, mvars, lvars, mod_user_dirs, mod_tree>>

NextScan ==
    \/ LoadMods
    \/ ChangeFolder

SpecScan == InitScan /\ [][NextScan]_vars

(***************************************************************************)
(* The launcher: state after construction, and its operations              *)
(***************************************************************************)
\* a z_launcher folder as the setup left it, holding an earlier merge
ZReady ==
    [dir |-> TRUE, common |-> TRUE, modfile |-> TRUE, readme |-> TRUE,
     em |-> FileWith(TextB), modtext |-> ManifestZ, readmetext |-> ReadmeText]
\* a z_launcher folder somebody emptied
ZBare ==
    [dir |-> TRUE, common |-> FALSE, modfile |-> FALSE, readme |-> FALSE,
     em |-> FileAbsent, modtext |-> <<>>, readmetext |-> <<>>]

\* a z_launcher folder with an earlier merge whose manifest was deleted
ZNoManifest ==
    [dir |-> TRUE, common |-> TRUE, modfile |-> FALSE, readme |-> TRUE,
     em |-> FileWith(TextB), modtext |-> <<>>, readmetext |-> ReadmeText]

\* B declares A
DepsBOnA == [NoDeps EXCEPT ![ModB] = <<ModA>>]
\* A declares B
DepsAOnB == [NoDeps EXCEPT ![ModA] = <<ModB>>]
\* A declares X and B, B declares A: a cycle whose mods all have a visible item
DepsCycle == [NoDeps EXCEPT ![ModA] = <<ModX, ModB>>, ![ModB] = <<ModA>>]

\* the dependency maps of the launcher's runs, on the keys of mod_files
LaunchDeps(S) ==
    {[m \in S |-> IF m \in Names THEN d[m] ELSE <<>>] :
        d \in {NoDeps, DepsBOnA, DepsAOnB, DepsCycle}}

\* the orders in which os.listdir may give the manifests
ScanOrders(zz) ==
    {p \o (IF zz.modfile THEN <<ModZ>> ELSE <<>>) :
        p \in {q \in DistinctListsOf(MergeMods, Cardinality(MergeMods)) :
                  Len(q) = Cardinality(MergeMods)}}

\* the states of the mods' own event_modifiers.txt
ModFileStates ==
    {f \in [MergeMods -> {FileAbsent, FileUnreadable,
                          FileWith(TextA), FileWith(TextB), FileWith(TextX)}] :
        /\ f[ModA] \in {FileAbsent, FileUnreadable, FileWith(TextA)}
        /\ f[ModB] \in {FileAbsent, FileUnreadable, FileWith(TextB)}
        /\ f[ModX] \in {FileAbsent, FileUnreadable, FileWith(TextX)}}

\* ', '.join('"' + d + '"' for d in deps)
RECURSIVE QuotedList(_)
QuotedList(deps) ==
    IF deps = <<>> THEN <<>>
    ELSE IF Len(deps) = 1 THEN <<Quote>> \o deps[1] \o <<Quote>>
    ELSE <<Quote>> \o deps[1] \o <<Quote, ",", " ">> \o QuotedList(Tail(deps))

\* the manifest of mod m in folder mod/<m>, declaring deps
ManifestText(m, deps) ==
    KeyName \o <<" ", "=", " ", Quote>> \o m \o <<Quote, "\n">>
    \o KeyPath \o <<" ", "=", " ", Quote, "m", "o", "d", "/">> \o m \o <<Quote, "\n">>
    \o (IF deps = <<>> THEN <<>>
        ELSE KeyDependencies \o <<" ", "=", " ", "{">> \o QuotedList(deps) \o <<"}", "\n">>)

\* the mod folder that holds the manifests of the mods of order
LaunchFolder(order, deps) ==
    [exists |-> TRUE,
     files |-> [k \in 1..Len(order) |->
                  Entry(order[k] \o DotMod,
                        IF order[k] = ModZ THEN ManifestZ
                        ELSE ManifestText(order[k], deps[order[k]]))]]

\* lines 280-285: the setup writes z_launcher.mod when it is missing
FolderAfterSetup(folder, zz, after) ==
    IF after.modfile /\ ~zz.modfile
    THEN [folder EXCEPT !.files = Append(@, Entry(FileZ, ManifestZ))]
    ELSE folder

\* after __init__: the manifests scanned, the tree built, the check states
\* restored from the settings file
Init ==
    /\ r_pc = "none"
    /\ r_mod_names = <<>>
    /\ r_result = [raised |-> FALSE, order |-> <<>>]
    /\ ParserIdle
    /\ z \in {ZNone, ZReady, ZBare, ZNoManifest}
    /\ mod_order \in ScanOrders(z)
    /\ mod_files = ScannedFiles(Range(mod_order))
    /\ mod_dependencies \in LaunchDeps(Range(mod_order))
    /\ fs \in ModFileStates
    /\ mf = NoMerge
    /\ io_log = <<>>
    /\ m_calls = 0
    /\ memo = NoMemo
    /\ checked \in SUBSET Range(VisitedItems(mod_order, mod_dependencies))
    /\ merge_enabled \in BOOLEAN
    /\ sg = NoStart
    /\ z_calls = <<>>
    /\ game = <<>>
    /\ mod_folder = LaunchFolder(mod_order, mod_dependencies)
    /\ mod_user_dirs = ScanFiles(EmptyScan, mod_folder.files).user_dirs
    /\ mod_tree = VisitedItems(mod_order, mod_dependencies)
    /\ l_pc = "ret"

\* the user checks or unchecks an item of the tree
ToggleMod ==
    /\ sg.pc = "idle"
    /\ \E m \in Range(VisitedItems(mod_order, mod_dependencies)) :
          checked' = IF m \in checked THEN checked \ {m} ELSE checked \cup {m}
    /\ UNCHANGED <<svars, rvars, pvars, mvars, mod_order, merge_enabled, sg, z, z_calls, game>>

\* lines 405-420, 716-726: every item is checked when its name is in the list
\* and unchecked when it is not
\*   faulty variant: the names of the list are checked whether or not the
\*   tree has an item for them
ApplyCheckedMut_names(names, tree) == names
ApplyChecked(names, tree) == names \cap Range(tree)

\* the names a preset or the settings file may list
SavedNames == Range(mod_order) \cup {ModZ}

\* preset_manager, lines 422-436: the preset chosen in the dialog is applied
SetCheckedMods ==
    /\ sg.pc = "idle"
    /\ \E names \in SUBSET SavedNames : checked' = ApplyChecked(names, mod_tree)
    /\ UNCHANGED <<svars, rvars, pvars, mvars, mod_order, merge_enabled, sg, z, z_calls, game>>

\* loadSettings, lines 701-730: checked_mods read from the settings file, the
\* scan of load_mods, the check states set from the list
LoadSettings ==
    /\ sg.pc = "idle"
    /\ LET scan == ScanResult(mod_folder,
                              [files |-> mod_files, deps |-> mod_dependencies,
                               user_dirs |-> mod_user_dirs, order |-> mod_order])
       IN /\ mod_files' = scan.files
          /\ mod_dependencies' = scan.deps
          /\ mod_user_dirs' = scan.user_dirs
          /\ mod_order' = scan.order
          /\ mod_tree' = TreeResult(mod_folder, scan)
    /\ \E names \in SUBSET SavedNames : checked' = ApplyChecked(names, mod_tree')
    /\ l_pc' = "ret"
    /\ UNCHANGED <<mod_folder, r_pc, r_mod_names, r_result, pvars,
                   fs, mf, io_log, m_calls, memo, merge_enabled, sg, z, z_calls, game>>

\* start_game, lines 616-647: the selection, the setup, the mods with the file
StartGame ==
    /\ sg.pc = "idle"
    /\ LET selected == GetCheckedMods(mod_order, mod_dependencies, mod_files, checked)
           with_em == IF merge_enabled /\ selected # <<>>
                      THEN ModsWithEventModifiers(selected, mod_files, fs)
                      ELSE <<>>
       IN /\ sg' = [pc |-> "begun", selected_mods |-> selected,
                    mods_with_em |-> with_em, order |-> <<>>,
                    mods_to_load |-> selected]
          /\ z' = SetupIfMissing(z, merge_enabled, selected)
          /\ mod_folder' = FolderAfterSetup(mod_folder, z,
                                            SetupIfMissing(z, merge_enabled, selected))
    /\ l_pc' = IF mod_folder' = mod_folder THEN l_pc ELSE "none"
    /\ UNCHANGED <<rvars, pvars, mvars, mod_order, checked, merge_enabled, game,
                   z_calls, mod_user_dirs, mod_tree>>

\* lines 648-651: resolve the order and call the merge
BeginMerge ==
    /\ sg.pc = "begun"
    /\ ShouldMerge(merge_enabled, sg.selected_mods, sg.mods_with_em)
    /\ LET res == ResolveLoadOrder(sg.mods_with_em, mod_dependencies)
       IN /\ sg' = [sg EXCEPT !.pc = "merging", !.order = res.order]
          /\ mf' = MergeStart(res.order)
    /\ io_log' = <<>>
    /\ UNCHANGED <<svars, rvars, pvars, lvars_but_sg, mod_files, fs, m_calls, memo>>

\* line 648 is false: nothing is merged or written
SkipMerge ==
    /\ sg.pc = "begun"
    /\ ~ShouldMerge(merge_enabled, sg.selected_mods, sg.mods_with_em)
    /\ sg' = [sg EXCEPT !.pc = "command"]
    /\ UNCHANGED <<svars, rvars, pvars, mvars, lvars_but_sg>>

\* line 651 has returned: merged_content is there to be written
\*   faulty variant: the write not held back until the call returns
MergeReturnedMut_any(f) == TRUE
MergeReturned(f) == f.pc = "done"

\* lines 652-655: write merged_content to z_launcher's file, load z_launcher
WriteMerged ==
    /\ sg.pc = "merging"
    /\ MergeReturned(mf)
    /\ z.common
    /\ z' = [z EXCEPT !.em = FileWith(mf.out)]
    /\ io_log' = Append(io_log, <<"write">>)
    /\ sg' = [sg EXCEPT !.pc = "command", !.mods_to_load = Append(@, ModZ)]
    /\ UNCHANGED <<svars, rvars, pvars, mod_files, fs, mf, m_calls, memo,
                   mod_order, checked, merge_enabled, game, z_calls>>

\* line 653 raises: z_launcher/common is not there; start_game ends
WriteRaises ==
    /\ sg.pc = "merging"
    /\ MergeReturned(mf)
    /\ ~z.common
    /\ sg' = [sg EXCEPT !.pc = "raised"]
    /\ UNCHANGED <<svars, rvars, pvars, mvars, lvars_but_sg>>

\* start_game has reached line 659: nothing above it raised
\*   faulty variant: the launch is made although the write raised
ReachedCommandMut_raised(s) == s.pc \in {"command", "raised"}
ReachedCommand(s) == s.pc = "command"

\* lines 659-687: the command line is built and the game started
Launch ==
    /\ ReachedCommand(sg)
    /\ game' = ModFileArgs(sg.mods_to_load, mod_files)
    /\ sg' = [sg EXCEPT !.pc = "launched"]
    /\ UNCHANGED <<svars, rvars, pvars, mvars, mod_order, checked, merge_enabled, z, z_calls>>

Next ==
    \/ ToggleMod
    \/ StartGame
    \/ BeginMerge
    \/ SkipMerge
    \/ MergeReadFail
    \/ MergeReadOk
    \/ MergeReturn
    \/ WriteMerged
    \/ WriteRaises
    \/ Launch

Spec == Init /\ [][Next]_vars

(***************************************************************************)
(* The launcher with every way of setting the check states: the scan, the  *)
(* presets, the settings file; merging enabled, every mod with its file    *)
(* (that of X readable or not)                                             *)
(***************************************************************************)
InitSelect ==
    /\ r_pc = "none"
    /\ r_mod_names = <<>>
    /\ r_result = [raised |-> FALSE, order |-> <<>>]
    /\ ParserIdle
    /\ z \in {ZNone, ZReady, ZBare, ZNoManifest}
    /\ mod_order \in ScanOrders(z)
    /\ mod_files = ScannedFiles(Range(mod_order))
    /\ mod_dependencies \in LaunchDeps(Range(mod_order))
    /\ fs \in {f \in ModFileStates :
                  /\ f[ModA] = FileWith(TextA)
                  /\ f[ModB] = FileWith(TextB)
                  /\ f[ModX] \in {FileWith(TextX), FileUnreadable}}
    /\ mf = NoMerge
    /\ io_log = <<>>
    /\ m_calls = 0
    /\ memo = NoMemo
    /\ checked = {}
    /\ merge_enabled = TRUE
    /\ sg = NoStart
    /\ z_calls = <<>>
    /\ game = <<>>
    /\ mod_folder = LaunchFolder(mod_order, mod_dependencies)
    /\ mod_user_dirs = ScanFiles(EmptyScan, mod_folder.files).user_dirs
    /\ mod_tree = VisitedItems(mod_order, mod_dependencies)
    /\ l_pc = "ret"

NextSelect ==
    \/ ToggleMod
    \/ SetCheckedMods
    \/ LoadMods
    \/ LoadSettings
    \/ StartGame
    \/ BeginMerge
    \/ SkipMerge
    \/ MergeReadFail
    \/ MergeReadOk
    \/ MergeReturn
    \/ WriteMerged
    \/ WriteRaises
    \/ Launch

SpecSelect == InitSelect /\ [][NextSelect]_vars

(***************************************************************************)
(* _ensure_z_launcher_setup called on any z_launcher folder                *)
(***************************************************************************)
\* direct calls of the setup in one run
MaxSetups == 2

\* what may be on disk before the setup: each directory and file there or
\* not, the files as the setup writes them, empty, or with somebody's text
ZDisks ==
    {zz \in [dir : BOOLEAN, common : BOOLEAN, modfile : BOOLEAN, readme : BOOLEAN,
             em : {FileAbsent, FileUnreadable, FileWith(<<>>), FileWith(TextB)},
             modtext : {<<>>, ManifestZ, ManifestA2},
             readmetext : {<<>>, ReadmeText, LineA1}] :
        /\ zz.common => zz.dir
        /\ zz.em.exists => zz.common
        /\ zz.readme => zz.dir
        /\ ~zz.modfile => zz.modtext = <<>>
        /\ ~zz.readme => zz.readmetext = <<>>}

\* the mod folder that holds z_launcher.mod when zz says so
FolderOfZ(zz) ==
    [exists |-> TRUE,
     files |-> IF zz.modfile THEN <<Entry(FileZ, zz.modtext)>> ELSE <<>>]

InitSetup ==
    /\ ResolverIdle
    /\ ParserIdle
    /\ MergeIdle
    /\ mod_order = <<>>
    /\ checked = {}
    /\ merge_enabled = FALSE
    /\ sg = NoStart
    /\ z \in ZDisks
    /\ z_calls = <<>>
    /\ game = <<>>
    /\ mod_folder = FolderOfZ(z)
    /\ mod_user_dirs = EmptyDict
    /\ mod_tree = <<>>
    /\ l_pc = "none"

\* the calls made so far
SetupCalls == IF z_calls = <<>> THEN 0 ELSE Len(z_calls) - 1

\* one call _ensure_z_launcher_setup(mod_folder), lines 275-293
EnsureSetup ==
    /\ SetupCalls < MaxSetups
    /\ z' = EnsureZLauncherSetup(z)
    /\ z_calls' = IF z_calls = <<>> THEN <<z, z'>> ELSE Append(z_calls, z')
    /\ mod_folder' = FolderAfterSetup(mod_folder, z, z')
    /\ UNCHANGED <<rvars, pvars, mvars, mod_order, checked, merge_enabled, sg, game,
                   mod_user_dirs, mod_tree, l_pc>>

NextSetup == EnsureSetup

SpecSetup == InitSetup /\ [][NextSetup]_vars

----
\* tax=10, trade=7, bonus=1
ExpectedMerged ==
    <<"t", "a", "x", "=", "1", "0", "\n", "t", "r", "a", "d", "e", "=", "7", "\n",
      "b", "o", "n", "u", "s", "=", "1", "\n">>

\* neither of A and B declares the other
NoEdgeAB ==
    /\ ModB \notin Range(mod_dependencies[ModA])
    /\ ModA \notin Range(mod_dependencies[ModB])

\* C9: A holds tax=10, trade=5 and B holds trade=7, bonus=1, no dependency
\* between them: the candidates [A, B] resolve to [A, B], and the merge in
\* that order returns and writes exactly tax=10, trade=7, bonus=1.
C9_EndToEnd ==
    (/\ fs[ModA] = FileWith(TextA)
     /\ fs[ModB] = FileWith(TextB)
     /\ NoEdgeAB) =>
        /\ (sg.pc = "merging" /\ sg.mods_with_em = <<ModA, ModB>>) =>
              sg.order = <<ModA, ModB>>
        /\ (sg.pc = "merging" /\ sg.order = <<ModA, ModB>> /\ mf.pc = "done") =>
              mf.out = ExpectedMerged
        /\ (sg.pc \in {"command", "launched"} /\ sg.order = <<ModA, ModB>>) =>
              z.em = FileWith(ExpectedMerged)

\* the scenario has run to the launch
C9_Witness ==
    /\ fs[ModA] = FileWith(TextA)
    /\ fs[ModB] = FileWith(TextB)
    /\ NoEdgeAB
    /\ sg.pc = "launched"
    /\ sg.mods_with_em = <<ModA, ModB>>
    /\ sg.order = <<ModA, ModB>>
    /\ z.em = FileWith(ExpectedMerged)

\* a read has been attempted for every mod of the resolved order, in order
AllReadsAttempted ==
    /\ Len(io_log) >= Len(sg.order)
    /\ \A k \in 1..Len(sg.order) : io_log[k] = <<"read", sg.order[k]>>

\* C10: z_launcher's event_modifiers.txt is given content only by the step
\* that follows the merge call: after a read was attempted for every mod of
\* the resolved order, and then the complete merged text; no step of the
\* merge touches it.  (The only other change is the setup creating the
\* missing file, empty, before the order is resolved.)
C10_WriteAfterReads ==
    [][(z'.em # z.em) =>
          \/ /\ sg.pc = "idle"
             /\ ~z.em.exists
             /\ z'.em = FileWith(<<>>)
          \/ /\ sg.pc = "merging"
             /\ AllReadsAttempted
             /\ mf.pc = "done"
             /\ z'.em = FileWith(MergeText(sg.order, mod_files, fs))]_vars

\* a launch wrote the merged file after three read attempts, one of them failed
C10_Witness ==
    /\ sg.pc = "command"
    /\ Len(sg.order) = Cardinality(MergeMods)
    /\ io_log = [k \in 1..(Len(sg.order) + 1) |->
                    IF k <= Len(sg.order) THEN <<"read", sg.order[k]>> ELSE <<"write">>]
    /\ \E m \in Range(sg.order) : ~CanRead(FileOf(mod_files, fs, m))
    /\ z.em = FileWith(mf.out)
    /\ mf.out # <<>>

----
\* merging is enabled and two or more of the checked mods have the file
MergePrecondition ==
    /\ merge_enabled
    /\ Len(ModsWithEventModifiers(
              GetCheckedMods(mod_order, mod_dependencies, mod_files, checked),
              mod_files, fs)) >= 2

\* z_launcher's manifest among the -mod arguments
ZLauncherArg == ModZ \o <<".", "m", "o", "d">>

\* what start_game has done, against the precondition: the resolver and the
\* merge ran, the file was written, z_launcher is loaded
MergeDecision ==
    /\ sg.pc = "merging" => MergePrecondition
    /\ sg.pc \in {"command", "launched", "raised"} =>
          /\ (mf.pc = "done") <=> MergePrecondition
          /\ (Len(sg.order) >= 2) <=> MergePrecondition
    /\ sg.pc \in {"command", "launched"} =>
          /\ (<<"write">> \in Range(io_log)) <=> MergePrecondition
          /\ (ModZ \in Range(sg.mods_to_load)) <=> MergePrecondition
          /\ MergePrecondition =>
                z.em = FileWith(Serialize(mf.merged_order, mf.merged_values))
    /\ sg.pc = "launched" =>
          ((ZLauncherArg \in Range(game)) <=> MergePrecondition)

ReleaseTime(c) ==
    LET at == {IndexOf(r_result.order, D) : D \in {E \in Names : CandidateEdge(c, E)}}
    IN IF at = {} THEN 0 ELSE CHOOSE k \in at : \A j \in at : j <= k

\* a and b wait in the queue at the same time: each is released before the
\* other is emitted
WaitTogether(a, b) ==
    /\ ReleaseTime(a) < IndexOf(r_result.order, b)
    /\ ReleaseTime(b) < IndexOf(r_result.order, a)

\* no candidate declares a candidate
NoCandidateEdge == \A M, D \in Names : ~CandidateEdge(M, D)

\* C17 as stated (for the calls in which Kahn's loop emits every candidate):
\* two candidates that have in-degree zero at the same time are emitted in
\* the order of the candidate list.
C17_ZeroTogetherListOrder ==
    (r_pc = "ret" /\ KahnComplete) =>
        \A a, b \in Range(r_mod_names) :
            (WaitTogether(a, b) /\ IndexOf(r_mod_names, a) < IndexOf(r_mod_names, b))
                => IndexOf(r_result.order, a) < IndexOf(r_result.order, b)

\* C17 amended: when Kahn's loop emits every candidate, a candidate whose
\* in-degree reaches zero earlier is emitted earlier (the queue is first in,
\* first out), and candidates whose in-degree reaches zero at the same step
\* (at the start, or by the emission of the same mod) are emitted in the
\* order of the candidate list; with no dependency between candidates the
\* result is the candidate list unchanged.
C17_StableQueue ==
    r_pc = "ret" =>
        /\ KahnComplete =>
              \A a, b \in Range(r_mod_names) :
                  /\ ReleaseTime(a) < ReleaseTime(b)
                        => IndexOf(r_result.order, a) < IndexOf(r_result.order, b)
                  /\ (/\ ReleaseTime(a) = ReleaseTime(b)
                      /\ IndexOf(r_mod_names, a) < IndexOf(r_mod_names, b))
                        => IndexOf(r_result.order, a) < IndexOf(r_result.order, b)
        /\ NoCandidateEdge => r_result.order = r_mod_names

\* two candidates released by the emission of the same third one, which
\* stands after them in the candidate list
C17_Witness ==
    /\ r_pc = "ret"
    /\ KahnComplete
    /\ \E a, b \in Range(r_mod_names) :
          /\ a # b
          /\ ReleaseTime(a) = 1
          /\ ReleaseTime(b) = 1
          /\ IndexOf(r_mod_names, a) = 1
          /\ IndexOf(r_mod_names, b) = 2
          /\ IndexOf(r_result.order, a) = 2
          /\ IndexOf(r_result.order, b) = 3

\* C18: the fallback of line 340 is taken exactly when the dependency graph
\* induced on the candidates has a cycle (a self-dependency included); a
\* declared name that is not installed or not a candidate, and a name
\* repeated in one list, do not bring it about.
C18_FallbackIffCycle ==
    r_pc = "ret" =>
        /\ ~KahnComplete <=> InducedCycle
        /\ r_result.order =
              IF InducedCycle THEN Sorted(r_mod_names)
              ELSE KahnOrder(r_mod_names, mod_dependencies)
        /\ ~InducedCycle =>
              \A M, D \in Names :
                  CandidateEdge(M, D) =>
                      IndexOf(r_result.order, D) < IndexOf(r_result.order, M)

\* a candidate that declares the same candidate twice, listed before it, and
\* is resolved after it without the fallback
C18_Witness ==
    /\ r_pc = "ret"
    /\ ~InducedCycle
    /\ KahnComplete
    /\ \E M, D \in Range(r_mod_names) :
          /\ M # D
          /\ mod_dependencies[M] = <<D, D>>
          /\ IndexOf(r_mod_names, M) < IndexOf(r_mod_names, D)
          /\ IndexOf(r_result.order, D) < IndexOf(r_result.order, M)
          /\ r_result.order # Sorted(r_mod_names)

\* t is s without the white space at its two ends
IsTrimOf(t, s) ==
    \E a \in 1..(Len(s) + 1), b \in 0..Len(s) :
        /\ t = SubSeq(s, a, b)
        /\ \A j \in 1..(a - 1) : IsSpace(s[j])
        /\ \A j \in (b + 1)..Len(s) : IsSpace(s[j])
        /\ t # <<>> => (~IsSpace(t[1]) /\ ~IsSpace(t[Len(t)]))

\* the line is blank, or a comment, or has no "="
NoEntryLine(l) ==
    \/ \A j \in 1..Len(l) : IsSpace(l[j])
    \/ \E j \in 1..Len(l) : l[j] = "#" /\ \A h \in 1..(j - 1) : IsSpace(l[h])
    \/ \A j \in 1..Len(l) : l[j] # "="

\* pair is (trimmed text before the first "=", trimmed text after it) of l
EntryOfLine(pair, l) ==
    \E k \in 1..Len(l) :
        /\ l[k] = "="
        /\ \A j \in 1..(k - 1) : l[j] # "="
        /\ IsTrimOf(pair[1], SubSeq(l, 1, k - 1))
        /\ IsTrimOf(pair[2], SubSeq(l, k + 1, Len(l)))

\* the lines that are no blank, no comment and have a "="
EntryLines(lines) == SelectSeq(lines, LAMBDA l : ~NoEntryLine(l))

\* no line of the input opens a value that goes on with the next line
NoMultiLine(lines) ==
    \A k \in 1..(Len(lines) - 1) :
        \/ NoEntryLine(lines[k])
        \/ \E j \in 1..Len(lines[k]) :
              /\ lines[k][j] = "="
              /\ \A h \in 1..(j - 1) : lines[k][h] # "="
              /\ Balance(SubSeq(lines[k], j + 1, Len(lines[k]))) <= 0

\* C19: a blank line, a line starting with '#' and a line without '=' give
\* no entry; every other line read outside a multi-line value gives one
\* entry, (trimmed text before the first '=', trimmed text after it); the
\* entries come in line order, duplicate keys kept.
C19_LineRules ==
    /\ (pf.pc = "emit" /\ pf.i = p_start) =>
          /\ ~NoEntryLine(pf.lines[p_start + 1])
          /\ EntryOfLine(<<pf.key, pf.value>>, pf.lines[p_start + 1])
    /\ (pf.pc = "done" /\ NoMultiLine(pf.lines)) =>
          /\ Len(pf.pairs) = Len(EntryLines(pf.lines))
          /\ \A k \in 1..Len(pf.pairs) :
                EntryOfLine(pf.pairs[k], EntryLines(pf.lines)[k])

\* ' a = 1=2 ', 'a=1', a comment with '=' and a blank line have been parsed
\* to (a, '1=2'), (a, '1')
C19_Witness ==
    /\ pf.pc = "done"
    /\ Range(pf.lines) = {LinePadded, LineA1, LineComment, LineBlank}
    /\ pf.lines[1] = LinePadded
    /\ pf.pairs = << <<(<<"a">>), (<<"1", "=", "2">>)>>, <<(<<"a">>), (<<"1">>)>> >>

\* the entry's first-line value and every line of the input after it
RestOfInput == <<FirstValue>> \o SubSeq(pf.lines, p_start + 2, Len(pf.lines))

----
\* the manifests of the folder that can be read, in listing order
ReadManifests(folder) ==
    SelectSeq(folder.files, LAMBDA e : EndsWith(e.file, DotMod) /\ e.readable)

\* the names found in a scan of the folder (none when there is no folder)
FoundNames(folder) ==
    {ParseManifest(e.content).name : e \in Range(ReadManifests(folder))} \ {<<>>}

\* the last manifest of the folder, in listing order, that gives this name
LastManifest(folder, name) ==
    LET ms == ReadManifests(folder)
    IN ms[CHOOSE k \in 1..Len(ms) :
              /\ ParseManifest(ms[k].content).name = name
              /\ \A j \in (k + 1)..Len(ms) : ParseManifest(ms[j].content).name # name]

\* the maps hold the names found in the folder, each with what its last
\* manifest gives
MapsAreOf(folder) ==
    /\ DOMAIN mod_files = FoundNames(folder)
    /\ DOMAIN mod_dependencies = FoundNames(folder)
    /\ DOMAIN mod_user_dirs = FoundNames(folder)
    /\ \A name \in FoundNames(folder) :
          LET fields == ParseManifest(LastManifest(folder, name).content)
          IN /\ mod_files[name].file = LastManifest(folder, name).file
             /\ mod_files[name].folder = FolderName(fields.mod_path)
             /\ mod_dependencies[name] = fields.dependencies
             /\ mod_user_dirs[name] = fields.user_dir

\* C13 as stated: after any call of load_mods the name->record map and the
\* name->dependencies map hold exactly the mods whose manifests that call
\* found in the mod folder, and nothing of an earlier scan.
C13_ScanReplacesMaps ==
    l_pc = "ret" => MapsAreOf(mod_folder)

\* load_mods has returned for a folder that is gone, and the maps still hold
\* the record of the scan before
C13_Witness ==
    /\ l_pc = "ret"
    /\ ~mod_folder.exists
    /\ mod_files # EmptyDict
    /\ mod_dependencies # EmptyDict
    /\ mod_tree = <<>>

\* C14: a manifest whose read raises is skipped and the scan goes on: the
\* maps are those of a scan of the same folder without the manifests that
\* cannot be read, and every manifest that can be read and has a name is
\* recorded.
C14_FailureContained ==
    (l_pc = "ret" /\ mod_folder.exists) =>
        /\ mod_files = ScanFiles(EmptyScan, ReadManifests(mod_folder)).files
        /\ mod_dependencies = ScanFiles(EmptyScan, ReadManifests(mod_folder)).deps
        /\ \A k \in 1..Len(mod_folder.files) :
              LET e == mod_folder.files[k]
              IN (/\ EndsWith(e.file, DotMod)
                  /\ e.readable
                  /\ ParseManifest(e.content).name # <<>>)
                    => ParseManifest(e.content).name \in DOMAIN mod_files
        /\ MapsAreOf(mod_folder)

\* a scan whose first manifest cannot be read and whose second is recorded
C14_Witness ==
    /\ l_pc = "ret"
    /\ Len(mod_folder.files) = 2
    /\ ReadRaises(mod_folder.files[1])
    /\ EndsWith(mod_folder.files[2].file, DotMod)
    /\ mod_folder.files[2].readable
    /\ DOMAIN mod_files = {ParseManifest(mod_folder.files[2].content).name}
    /\ mod_files # EmptyDict

\* C15: no record is stored under the empty name; the record, dependency and
\* user-dir maps have the same keys, each name once; a manifest without a
\* name or with an empty name gives no record, and a name given by two
\* manifests holds the record of the later one.
C15_RecordNames ==
    /\ <<>> \notin DOMAIN mod_files
    /\ DOMAIN mod_dependencies = DOMAIN mod_files
    /\ DOMAIN mod_user_dirs = DOMAIN mod_files
    /\ Range(mod_order) = DOMAIN mod_files
    /\ IsDistinct(mod_order)
    /\ (l_pc = "ret" /\ mod_folder.exists) =>
          /\ MapsAreOf(mod_folder)
          /\ Cardinality(DOMAIN mod_files) <= Len(ReadManifests(mod_folder))

\* a scan of a manifest with an empty name and of a manifest with a name
C15_Witness ==
    /\ l_pc = "ret"
    /\ mod_folder.exists
    /\ \E e \in Range(ReadManifests(mod_folder)) :
          /\ ParseManifest(e.content).name = <<>>
          /\ KeyName \in {ParseModKv(l)[1] :
                            l \in {x \in Range(SplitOn(e.content, "\n")) :
                                      ParseModKv(x) # <<>>}}
    /\ Cardinality(DOMAIN mod_files) = 1

\* C16: z_launcher is never an item of the mod tree, and after a scan that
\* found its manifest its record is in the name->record map.
C16_ReservedHidden ==
    /\ ModZ \notin Range(mod_tree)
    /\ (l_pc = "ret" /\ mod_folder.exists /\ ModZ \in FoundNames(mod_folder)) =>
          /\ ModZ \in DOMAIN mod_files
          /\ mod_files[ModZ] = [file |-> FileZ, folder |-> ModZ]
          /\ mod_tree = VisitedItems(SelectSeq(mod_order, LAMBDA m : m # ModZ),
                                     mod_dependencies)

\* a scan that found z_launcher's manifest and another mod's: one item
C16_Witness ==
    /\ l_pc = "ret"
    /\ mod_folder.exists
    /\ Len(mod_order) = 2
    /\ mod_order[1] = ModZ
    /\ ModZ \in DOMAIN mod_files
    /\ Len(mod_tree) = 1

----
\* C21 (as stated): the dependency list stored for a mod never contains an
\* empty name
C21_NoEmptyDependency ==
    \A n \in DOMAIN mod_dependencies : <<>> \notin Range(mod_dependencies[n])

\* C21, what the scan does: a piece that is only two double quotes is not
\* white space, passes the filter of line 535 and is stored as the empty name
C21_Witness ==
    /\ l_pc = "ret"
    /\ mod_folder.exists
    /\ Entry(FileA, ManifestALoop) \in Range(mod_folder.files)
    /\ ModA \in DOMAIN mod_dependencies
    /\ mod_dependencies[ModA] = <<<<>>, ModB, ModA>>

\* C30 (as stated): after a scan of an existing mod folder every recorded mod
\* other than z_launcher is an item the iterator reaches from the top-level
\* items of the tree
C30_AllReachable ==
    (l_pc = "ret" /\ mod_folder.exists) =>
        \A m \in DOMAIN mod_files \ {ModZ} : m \in Range(mod_tree)

\* C30, what the scan does: A is added under B and B under A (lines 578-582),
\* neither is given to addTopLevelItem, the tree stays empty
C30_Witness ==
    /\ l_pc = "ret"
    /\ mod_folder.exists
    /\ DOMAIN mod_files = {ModA, ModB}
    /\ ModB \in Range(mod_dependencies[ModA])
    /\ ModA \in Range(mod_dependencies[ModB])
    /\ mod_tree = <<>>

\* C30, a mod that declares itself: the item is added under itself
C30_SelfWitness ==
    /\ l_pc = "ret"
    /\ mod_folder.exists
    /\ DOMAIN mod_files = {ModA}
    /\ ModA \in Range(mod_dependencies[ModA])
    /\ mod_tree = <<>>

----
\* the candidates that declare no candidate, in the order of the list
FreeCandidates ==
    SelectSeq(r_mod_names, LAMBDA m : \A D \in Names : ~CandidateEdge(m, D))

----
\* the steps of a call, told by the position before and after
KeyValueStep == pf.pc = "outer" /\ pf'.pc \in {"inner", "emit"}
ContinueStep == pf.pc = "inner" /\ pf'.pc = "inner"
EmitStep == pf.pc = "emit" /\ pf'.pc = "outer"
SkipStep == pf.pc = "outer" /\ pf'.pc = "outer"

\* a line the outer loop would skip as blank or as a comment
BlankOrComment(line) == Strip(line) = <<>> \/ Head(Strip(line)) = "#"

\* C25 (as stated, the part on blank lines): every line consumed inside an
\* open brace block is kept in the value that is emitted
C25_ConsumedKept ==
    BlockRead => Count(pf.value, "\n") = Len(ConsumedLines)

\* C25 amended: an entry takes the lines from its first one to the last one
\* consumed, the next entry starts after that last line (each line belongs to
\* at most one entry), and the outer loop resumes at the line after it;
\* inside an open brace block the next line is appended to the value
\* whatever it is, a blank line or a '#' line included, never skipped; the
\* value emitted is that text with the white space at its two ends trimmed
\* (so blank lines that end an unterminated block are consumed and trimmed).
C25_Opaque ==
    [][/\ KeyValueStep => (p_start' = pf.i /\ p_start' > p_end)
       /\ (pf.pc = "inner" /\ Balance(pf.value) > 0 /\ pf.i + 1 < Len(pf.lines)) =>
             /\ ContinueStep
             /\ pf'.i = pf.i + 1
             /\ pf'.value = pf.value \o <<"\n">> \o pf.lines[pf.i + 2]
             /\ pf'.pairs = pf.pairs
       /\ (pf.pc = "inner" /\ ~ContinueStep) =>
             /\ pf'.pc = "emit"
             /\ pf'.i = pf.i
             /\ pf'.value = Strip(pf.value)
       /\ EmitStep =>
             /\ p_start <= pf.i
             /\ p_end' = pf.i
             /\ pf'.i = pf.i + 1
             /\ pf'.pairs = Append(pf.pairs, <<pf.key, pf.value>>)
             /\ Balance(FirstValue) > 0 =>
                   pf.value = Strip(VerbatimUpTo(Len(ConsumedLines)))
             /\ ~("{" \in Range(FirstValue)) => pf.i = p_start
       /\ SkipStep => (pf'.pairs = pf.pairs /\ pf'.i = pf.i + 1)]_vars

\* a block that holds a blank line and a '#' line, and an entry after it
C25_Witness ==
    /\ pf.pc = "done"
    /\ pf.lines = <<LineFooOpen, LineBlank, LineComment, LineA1>>
    /\ pf.pairs = << <<(<<"f", "o", "o">>), (<<"{", "\n", "\n", "#", "=", "}">>)>>,
                    <<(<<"a">>), (<<"1">>)>> >>
    /\ p_start = 3
    /\ p_end = 3

\* an unterminated block that ends with a blank line: consumed, trimmed away
C25_TrimWitness ==
    /\ pf.pc = "emit"
    /\ pf.lines = <<LineFooOpen, LineBlank>>
    /\ pf.i = 1
    /\ pf.value = <<"{">>

----
\* C29: the call terminates: every iteration of the outer loop (a skipped
\* line, or an entry from its first line to its append) and every iteration
\* of the inner loop moves the line index up, by one per line; the index
\* never passes the number of lines, the entries never outnumber the lines
\* read, and the call reaches its return.
C29_Terminates ==
    /\ [][/\ SkipStep => pf'.i = pf.i + 1
          /\ ContinueStep => pf'.i = pf.i + 1
          /\ EmitStep => (pf'.i = pf.i + 1 /\ pf'.i > p_start)
          /\ pf.pc # "none" => pf'.i >= pf.i
          /\ pf'.i <= Len(pf'.lines)
          /\ Len(pf'.pairs) <= pf'.i
          /\ pf'.pc = "done" => Len(pf'.pairs) <= Len(pf'.lines)]_vars
    /\ <>(pf.pc = "done")

\* a call on four lines that went through the inner loop twice has returned
C29_Witness ==
    /\ pf.pc = "done"
    /\ Len(pf.lines) = MaxLines
    /\ pf.i = MaxLines
    /\ Len(pf.pairs) = 2
    /\ Count(pf.pairs[1][2], "\n") = 2

----
\* the merged (key, value) sequence of the call, in the order of merged_order
MergedPairs ==
    [k \in 1..Len(mf.merged_order) |->
        <<mf.merged_order[k], mf.merged_values[mf.merged_order[k]]>>]

\* the merged values that have more { than }: blocks a source left open
OpenValues == {k \in 1..Len(mf.merged_order) : Balance(MergedPairs[k][2]) > 0}

\* C26 (as stated): parsing the text a merge returns yields the merged
\* (key, value) sequence, whatever the sources
C26_RoundTrip ==
    mf.pc = "done" => ParseContent(mf.out) = MergedPairs

\* C26 amended: when no merged value has more { than }, parsing the text the
\* merge returns yields exactly the merged (key, value) sequence in the same
\* order, multi-line values included; a merged value that a source left open
\* and that is followed by another key takes the following lines into its
\* value when the text is parsed, and the sequence is not the merged one.
C26_RoundTripClosed ==
    mf.pc = "done" =>
        /\ OpenValues = {} => ParseContent(mf.out) = MergedPairs
        /\ (\E k \in OpenValues : k < Len(mf.merged_order)) =>
              /\ ParseContent(mf.out) # MergedPairs
              /\ Len(ParseContent(mf.out)) < Len(MergedPairs)

\* X then B merged: the block foo spans three lines and bonus is closed by B
C26_Witness ==
    /\ mf.pc = "done"
    /\ mf.ordered = <<ModX, ModB>>
    /\ Len(mf.merged_order) = 4
    /\ OpenValues = {}
    /\ \E k \in 1..4 : Count(MergedPairs[k][2], "\n") = 2
    /\ ParseContent(mf.out) = MergedPairs

\* X merged alone: bonus={ comes first and takes foo and tax into its value
C26_OpenWitness ==
    /\ mf.pc = "done"
    /\ mf.ordered = <<ModX>>
    /\ Len(mf.merged_order) = 3
    /\ OpenValues = {1}
    /\ Len(ParseContent(mf.out)) = 1

----
\* C24: a second call of the setup leaves what the first left; a file that
\* was there before the first call keeps its content (z_launcher.mod,
\* common/event_modifiers.txt, readme.txt); after a call the z_launcher and
\* common directories and the three files exist, the files the call made
\* holding the texts of lines 283-285, 289 and 293.
C24_Idempotent ==
    Len(z_calls) >= 2 =>
        LET before == z_calls[1]
            once == z_calls[2]
        IN /\ \A k \in 2..Len(z_calls) : z_calls[k] = once
           /\ z = once
           /\ EnsureZLauncherSetup(once) = once
           /\ before.modfile => once.modtext = before.modtext
           /\ before.em.exists => once.em = before.em
           /\ before.readme => once.readmetext = before.readmetext
           /\ once.dir /\ once.common /\ once.modfile /\ once.readme /\ once.em.exists
           /\ ~before.modfile => once.modtext = ManifestZ
           /\ ~before.em.exists => once.em = FileWith(<<>>)
           /\ ~before.readme => once.readmetext = ReadmeText
           /\ mod_folder.files = <<Entry(FileZ, once.modtext)>>

\* two calls on a folder that held somebody's z_launcher.mod and an earlier
\* merge, but no readme: the second call changed nothing, the first only
\* added the readme
C24_Witness ==
    /\ Len(z_calls) = 3
    /\ z_calls[1].modtext = ManifestA2
    /\ z_calls[1].em = FileWith(TextB)
    /\ ~z_calls[1].readme
    /\ z_calls[2] # z_calls[1]
    /\ z_calls[3] = z_calls[2]
    /\ z.readmetext = ReadmeText
    /\ z.em = FileWith(TextB)

----
\* the number of times x stands in list s
Occurrences(s, x) == Cardinality({k \in 1..Len(s) : s[k] = x})

\* C22: the game is started only by the step that follows line 659, with the
\* arguments of mods_to_load; when z_launcher is among them the merge of this
\* launch has returned, a read was attempted for every mod of the resolved
\* order, the write was the last thing done and the file holds the whole
\* merged text; a merge that was begun is never passed by; when the write
\* raises, start_game ends there and the game is not started at all.
C22_LaunchAfterWrite ==
    [][/\ (sg'.pc = "launched" /\ sg.pc # "launched") =>
             /\ sg.pc = "command"
             /\ game' = ModFileArgs(sg.mods_to_load, mod_files)
             /\ z' = z
             /\ (ZLauncherArg \in Range(game') \/ mf.pc # "none") =>
                   /\ mf.pc = "done"
                   /\ AllReadsAttempted
                   /\ io_log[Len(io_log)] = <<"write">>
                   /\ Occurrences(io_log, <<"write">>) = 1
                   /\ z.em = FileWith(MergeText(sg.order, mod_files, fs))
                   /\ ZLauncherArg \in Range(game')
       /\ game' # game => sg'.pc = "launched"
       /\ sg.pc = "raised" => sg'.pc = "raised"
       /\ sg'.pc = "raised" =>
             /\ game' = <<>>
             /\ ~z'.common
             /\ z'.em = FileAbsent
             /\ <<"write">> \notin Range(io_log')]_vars

\* the merge returned, the write raised for want of z_launcher/common: no
\* file, no game
C22_Witness ==
    /\ sg.pc = "raised"
    /\ mf.pc = "done"
    /\ mf.out # <<>>
    /\ AllReadsAttempted
    /\ game = <<>>
    /\ ~z.em.exists

----
\* C27: z_launcher has no item in the tree, only names of items are checked,
\* and so the reserved name is not in the list get_checked_mods returns (the
\* checked items of the tree that are keys of mod_files), not among the mods
\* with the file, not in the resolved order and not a source of the merge;
\* it stands in the launch list at most once, put there by line 655.
C27_ReservedNotSelected ==
    LET selected == GetCheckedMods(mod_order, mod_dependencies, mod_files, checked)
    IN /\ ModZ \notin Range(mod_tree)
       /\ checked \subseteq Range(mod_tree)
       /\ selected = SelectSeq(mod_tree, LAMBDA m : m \in checked /\ m \in DOMAIN mod_files)
       /\ ModZ \notin Range(selected)
       /\ ModZ \notin Range(ModsWithEventModifiers(selected, mod_files, fs))
       /\ ModZ \notin Range(sg.selected_mods)
       /\ ModZ \notin Range(sg.mods_with_em)
       /\ ModZ \notin Range(sg.order)
       /\ ModZ \notin Range(mf.ordered)
       /\ \A k \in 1..Len(io_log) : io_log[k] # <<"read", ModZ>>
       /\ Occurrences(sg.mods_to_load, ModZ) <= 1
       /\ sg.pc = "launched" => game = ModFileArgs(sg.mods_to_load, mod_files)

\* z_launcher has a record from the scan, every item is checked, the launch
\* merged three mods and loads z_launcher once, as the last mod
C27_Witness ==
    /\ sg.pc = "launched"
    /\ ModZ \in DOMAIN mod_files
    /\ checked = Range(mod_tree)
    /\ Len(sg.selected_mods) = 3
    /\ Len(mf.ordered) = 3
    /\ Occurrences(sg.mods_to_load, ModZ) = 1
    /\ sg.mods_to_load[Len(sg.mods_to_load)] = ModZ

----
\* C28 (as stated): when the game was started with -mod=mod/z_launcher.mod,
\* the manifest z_launcher.mod and z_launcher/common/event_modifiers.txt
\* exist in the mod folder
C28_ManifestExists ==
    (sg.pc = "launched" /\ ZLauncherArg \in Range(game)) =>
        /\ z.modfile
        /\ \E k \in 1..Len(mod_folder.files) : mod_folder.files[k].file = FileZ
        /\ z.em.exists

\* C28, what start_game does: the z_launcher directory is there, so the
\* setup is not called (line 645); the write succeeds, z_launcher is put in
\* the launch list and the game is started with a manifest that is not there
C28_Witness ==
    /\ sg.pc = "launched"
    /\ ZLauncherArg \in Range(game)
    /\ ~z.modfile
    /\ \A k \in 1..Len(mod_folder.files) : mod_folder.files[k].file # FileZ
    /\ z.dir
    /\ z.em = FileWith(mf.out)

====
